---- MODULE Spec2Model ----
(***************************************************************************)
(* Gen-level matching of fat jets (boostedhiggs/utils.py).                 *)
(*                                                                         *)
(* An event is an arena of generated particles: a sequence of records      *)
(* with a parent index (0 = no parent).  A jagged awkward array of         *)
(* particles is a sequence of arena indices.  Angles are in tenths, every  *)
(* particle and the jet lie at phi = 0, so deltaR is |eta_a - eta_b|.      *)
(* An option-typed awkward value is a sequence of length 0 (None) or 1.    *)
(***************************************************************************)
EXTENDS Integers, Sequences, FiniteSets, TLC

VARIABLES genparts, fatjets, pc, call, ret, JET_DR

vars == <<genparts, fatjets, pc, call, ret, JET_DR>>

---------------------------------------------------------------------------
(* Program constants, utils.py lines 10-36 *)

d_PDGID == 1
c_PDGID == 4
b_PDGID == 5
g_PDGID == 21
TOP_PDGID == 6
ELE_PDGID == 11
vELE_PDGID == 12
MU_PDGID == 13
vMU_PDGID == 14
TAU_PDGID == 15
vTAU_PDGID == 16
GAMMA_PDGID == 22
Z_PDGID == 23
W_PDGID == 24
HIGGS_PDGID == 25
PI_PDGID == 211
PO_PDGID == 221
PP_PDGID == 111

GEN_FLAGS == <<"fromHardProcess", "isLastCopy">>

FILL_NONE_VALUE == -99999

\* line 36, JET_DR = 0.8, in tenths: the value the module attribute JET_DR
\* (a variable of the model) holds unless it is set to another
DEFAULT_JET_DR == 8

---------------------------------------------------------------------------
(* Bounds of the model *)

MaxHiggs == 1
MaxChildren == 2
MaxDaus == 2
MaxParts == 7
MaxBosons == 2
MaxEvents == 2
MaxKids == 2
MaxHadrons == 3
MaxE == 5
MaxMet == 6
MaxTopParts == 8

---------------------------------------------------------------------------
(* Array helpers *)

Abs(x) == IF x < 0 THEN -x ELSE x

None == <<>>
Some(x) == <<x>>

\* ak.firsts: the first element of a list, None for an empty list
firsts(s) == IF Len(s) = 0 THEN None ELSE Some(s[1])

RECURSIVE flatten(_)
flatten(ss) == IF Len(ss) = 0 THEN <<>> ELSE Head(ss) \o flatten(Tail(ss))

\* b * k for a boolean b
Times(b, k) == IF b THEN k ELSE 0

to_label(b) == IF b THEN 1 ELSE 0

\* {**a, **b}
Merge(a, b) == b @@ a

Indices(ev) == [i \in 1..Len(ev) |-> i]

delta_r(a, b) == Abs(a.eta - b.eta)

hasFlags(p, flags) == \A k \in 1..Len(flags) : p[flags[k]]

\* .children / .distinctChildren / .distinctChildrenDeep of particle i: the
\* arena holds no same-species copies, so the three coincide
children(ev, i) == SelectSeq(Indices(ev), LAMBDA j : ev[j].parent = i)

\* ak.argmin(..., keepdims=True) used as an index: the position of the
\* first minimum, None for an empty list
RECURSIVE argmin(_)
argmin(vals) ==
  IF Len(vals) = 0 THEN None
  ELSE LET r == argmin(Tail(vals))
       IN IF r = None \/ vals[1] <= vals[r[1] + 1] THEN Some(1) ELSE Some(r[1] + 1)

RECURSIVE argmax(_)
argmax(vals) ==
  IF Len(vals) = 0 THEN None
  ELSE LET r == argmax(Tail(vals))
       IN IF r = None \/ vals[1] >= vals[r[1] + 1] THEN Some(1) ELSE Some(r[1] + 1)

\* s[idx] for an option-typed index: [None] -> firsts is None
take(s, idx) == IF idx = None THEN None ELSE Some(s[idx[1]])

\* the comparison made on the signed pdgId
get_pid_mask_signed(ev, parts, pdgids, byall) ==
  LET mask == [k \in 1..Len(parts) |->
                 \E m \in 1..Len(pdgids) : ev[parts[k]].pdgId = pdgids[m]]
  IN IF byall THEN \A k \in 1..Len(parts) : mask[k] ELSE mask

get_pid_mask(ev, parts, pdgids, byall) ==
  LET mask == [k \in 1..Len(parts) |->
                 \E m \in 1..Len(pdgids) : Abs(ev[parts[k]].pdgId) = pdgids[m]]
  IN IF byall THEN \A k \in 1..Len(parts) : mask[k] ELSE mask

\* array[mask]
masked(parts, mask) ==
  LET keep == SelectSeq([k \in 1..Len(parts) |-> k], LAMBDA k : mask[k])
  IN [k \in 1..Len(keep) |-> parts[keep[k]]]

---------------------------------------------------------------------------
(* match_H, utils.py lines 72-218, for one event of the batch *)

\* line 74
higgs_of(ev) ==
  masked(Indices(ev),
         [k \in 1..Len(ev) |->
            get_pid_mask(ev, Indices(ev), <<HIGGS_PDGID>>, FALSE)[k]
            /\ hasFlags(ev[k], GEN_FLAGS)])

\* line 78, then ak.firsts at line 81: None when the event has no Higgs
matched_higgs_of(ev, jet) ==
  LET higgs == higgs_of(ev)
  IN take(higgs, argmin([k \in 1..Len(higgs) |-> delta_r(jet, ev[higgs[k]])]))

\* line 79: the radius is the literal 0.8
matched_higgs_mask_of(ev, jet) ==
  LET mh == matched_higgs_of(ev, jet)
  IN mh # None /\ delta_r(jet, ev[mh[1]]) < 8

\* lines 83, 89, 93: the W children of the matched Higgs
matched_W_children(ev, jet) ==
  LET mh == matched_higgs_of(ev, jet)
      ch == children(ev, mh[1])
  IN IF mh = None THEN <<>>
     ELSE masked(ch, get_pid_mask(ev, ch, <<W_PDGID>>, FALSE))

\* line 95
v_star_of(ev, jet) ==
  LET ws == matched_W_children(ev, jet)
  IN take(ws, argmin([k \in 1..Len(ws) |-> ev[ws[k]].mass]))

\* V taken by production order: the first W child
v_first_child(ev, jet) == firsts(matched_W_children(ev, jet))

\* line 96
v_of(ev, jet) ==
  LET ws == matched_W_children(ev, jet)
  IN take(ws, argmax([k \in 1..Len(ws) |-> ev[ws[k]].mass]))

\* lines 107-109: the daughters of the children of every selected Higgs
all_daus_flat_of(ev) ==
  LET higgs == higgs_of(ev)
      higgs_children == [k \in 1..Len(higgs) |-> children(ev, higgs[k])]
      all_daus == [k \in 1..Len(higgs) |->
                     [c \in 1..Len(higgs_children[k]) |->
                        children(ev, higgs_children[k][c])]]
  IN flatten(flatten(all_daus))

\* line 113
num_quarks_of(ev) ==
  Len(SelectSeq(all_daus_flat_of(ev), LAMBDA i : Abs(ev[i].pdgId) <= b_PDGID))

\* the tau left out of the lepton count
num_leptons_no_tau(ev) ==
  Len(SelectSeq(all_daus_flat_of(ev),
        LAMBDA i : Abs(ev[i].pdgId) = ELE_PDGID \/ Abs(ev[i].pdgId) = MU_PDGID))

\* lines 114-117
num_leptons_of(ev) ==
  Len(SelectSeq(all_daus_flat_of(ev),
        LAMBDA i : Abs(ev[i].pdgId) = ELE_PDGID \/ Abs(ev[i].pdgId) = MU_PDGID
                   \/ Abs(ev[i].pdgId) = TAU_PDGID))

\* lines 118-120
num_species_of(ev, pdgid) ==
  Len(SelectSeq(all_daus_flat_of(ev), LAMBDA i : Abs(ev[i].pdgId) = pdgid))

\* lines 124-127
is_neutrino(p) ==
  Abs(p.pdgId) = vELE_PDGID \/ Abs(p.pdgId) = vMU_PDGID \/ Abs(p.pdgId) = vTAU_PDGID

is_lepton(p) ==
  Abs(p.pdgId) = ELE_PDGID \/ Abs(p.pdgId) = MU_PDGID \/ Abs(p.pdgId) = TAU_PDGID

\* lines 98-103
genVVars_of(ev, jet) ==
  LET higgs == higgs_of(ev)
      v == v_of(ev, jet)
      v_star == v_star_of(ev, jet)
  IN [fj_genH_jet |-> delta_r(jet, ev[higgs[1]]),
      fj_genV_dR |-> IF v = None THEN None ELSE Some(delta_r(jet, ev[v[1]])),
      fj_genVstar |-> IF v_star = None THEN None
                      ELSE Some(delta_r(jet, ev[v_star[1]])),
      genV_genVstar_dR |-> IF v = None THEN None
                           ELSE Some(delta_r(ev[v[1]], ev[v_star[1]]))]

\* lines 105-156
genHVVVars_of(ev, jet) ==
  LET mh == matched_higgs_of(ev, jet)
      ws == matched_W_children(ev, jet)
      v == v_of(ev, jet)
      v_star == v_star_of(ev, jet)
      all_daus_flat == all_daus_flat_of(ev)
      num_quarks == num_quarks_of(ev)
      num_leptons == num_leptons_of(ev)
      num_electrons == num_species_of(ev, ELE_PDGID)
      num_muons == num_species_of(ev, MU_PDGID)
      num_taus == num_species_of(ev, TAU_PDGID)
      num_m_quarks ==
        Len(SelectSeq(all_daus_flat,
              LAMBDA i : ~is_neutrino(ev[i]) /\ ~is_lepton(ev[i])
                         /\ delta_r(jet, ev[i]) < JET_DR))
      num_m_leptons ==
        Len(SelectSeq(all_daus_flat,
              LAMBDA i : is_lepton(ev[i]) /\ delta_r(jet, ev[i]) < JET_DR))
      num_m_cquarks ==
        Len(SelectSeq(all_daus_flat,
              LAMBDA i : ev[i].pdgId = b_PDGID /\ delta_r(jet, ev[i]) < JET_DR))
      lep_daughters == SelectSeq(all_daus_flat, LAMBDA i : is_lepton(ev[i]))
      parent == firsts([k \in 1..Len(lep_daughters) |-> ev[lep_daughters[k]].parent])
      gen_lepton == firsts(lep_daughters)
  IN [fj_nquarks |-> num_m_quarks,
      fj_ncquarks |-> num_m_cquarks,
      fj_lepinprongs |-> num_m_leptons,
      fj_H_VV_4q |-> to_label(num_quarks = 4 /\ num_leptons = 0),
      fj_H_VV_elenuqq |->
        to_label(num_electrons = 1 /\ num_quarks = 2 /\ num_leptons = 1),
      fj_H_VV_munuqq |->
        to_label(num_muons = 1 /\ num_quarks = 2 /\ num_leptons = 1),
      fj_H_VV_taunuqq |->
        to_label(num_taus = 1 /\ num_quarks = 2 /\ num_leptons = 1),
      fj_H_VV_isVlepton |->
        IF parent = None \/ v = None THEN None
        ELSE Some(ev[parent[1]].mass = ev[v[1]].mass),
      fj_H_VV_isVstarlepton |->
        IF parent = None \/ v_star = None THEN None
        ELSE Some(ev[parent[1]].mass = ev[v_star[1]].mass),
      fj_H_VV_isMatched |->
        IF mh = None THEN None ELSE Some(Len(ws) > 0),
      gen_Vlep_pt |->
        IF gen_lepton = None THEN None ELSE Some(ev[gen_lepton[1]].pt)]

\* line 86: higgs.pt is the list of the pt of every selected Higgs of the
\* event; it holds no None for ak.fill_none to fill
fj_genH_pt_of(ev) ==
  LET higgs == higgs_of(ev)
  IN [k \in 1..Len(higgs) |-> ev[higgs[k]].pt]

\* lines 161-176: the last-copy, non-neutrino decay products of the tau
\* children of the matched Higgs, flattened
flat_taudaughters_of(ev, jet) ==
  LET mh == matched_higgs_of(ev, jet)
      ch == children(ev, mh[1])
      daughters == masked(ch, get_pid_mask(ev, ch, <<TAU_PDGID>>, FALSE))
      taus == SelectSeq(daughters, LAMBDA i : Abs(ev[i].pdgId) = TAU_PDGID)
      taudaughters ==
        [k \in 1..Len(taus) |->
           SelectSeq(children(ev, taus[k]),
                     LAMBDA i : hasFlags(ev[i], <<"isLastCopy">>)
                                /\ ~is_neutrino(ev[i]))]
  IN flatten(taudaughters)

\* lines 177-201
taudecay_of(ev, jet) ==
  LET ps == flat_taudaughters_of(ev, jet)
      n_had == Len(SelectSeq(ps, LAMBDA i : Abs(ev[i].pdgId) = PI_PDGID
                                    \/ Abs(ev[i].pdgId) = PO_PDGID
                                    \/ Abs(ev[i].pdgId) = PP_PDGID))
      n_ele == Len(SelectSeq(ps, LAMBDA i : Abs(ev[i].pdgId) = ELE_PDGID))
      n_mu == Len(SelectSeq(ps, LAMBDA i : Abs(ev[i].pdgId) = MU_PDGID))
  IN Times(n_had > 0, 1) + Times(n_ele = 1, 3) + Times(n_mu = 1, 5)
     + Times(n_ele = 2 \/ n_mu = 2, 7)

\* lines 203-206
elehad_of(taudecay) == taudecay = 4
muhad_of(taudecay) == taudecay = 6
leplep_of(taudecay) == taudecay = 7
\* hadhad taken from the hadronic code instead of the complement
hadhad_by_code(taudecay) == taudecay = 1

hadhad_of(taudecay) ==
  ~elehad_of(taudecay) /\ ~muhad_of(taudecay) /\ ~leplep_of(taudecay)

\* lines 160-214: every value derives from ak.firsts(matched_higgs), so it
\* is option-typed and None in an event without a selected Higgs
genHTTVars_of(ev, jet) ==
  LET mh == matched_higgs_of(ev, jet)
      ch == children(ev, mh[1])
      children_mask == get_pid_mask(ev, ch, <<TAU_PDGID>>, FALSE)
      taudecay == taudecay_of(ev, jet)
  IN IF mh = None
     THEN [fj_H_tt_hadhad |-> None, fj_H_tt_elehad |-> None,
           fj_H_tt_muhad |-> None, fj_H_tt_leplep |-> None,
           fj_H_tt_isMatched |-> None]
     ELSE [fj_H_tt_hadhad |-> Some(to_label(hadhad_of(taudecay))),
           fj_H_tt_elehad |-> Some(to_label(elehad_of(taudecay))),
           fj_H_tt_muhad |-> Some(to_label(muhad_of(taudecay))),
           fj_H_tt_leplep |-> Some(to_label(leplep_of(taudecay))),
           fj_H_tt_isMatched |->
             Some(\E k \in 1..Len(ch) : children_mask[k])]

\* the variables of one event, lines 86, 158, 216
genVars_H_of(ev, jet, dau_pdgid) ==
  LET genVars == [fj_genH_pt |-> fj_genH_pt_of(ev)]
  IN IF dau_pdgid = W_PDGID
     THEN Merge(Merge(genVars, genVVars_of(ev, jet)), genHVVVars_of(ev, jet))
     ELSE IF dau_pdgid = TAU_PDGID
     THEN Merge(genVars, genHTTVars_of(ev, jet))
     ELSE genVars

\* columns of a batch: key -> one value per event
Columns(keys, per) ==
  [k \in keys |-> [e \in 1..Len(per) |-> per[e][k]]]

HVarNames ==
  {"fj_genH_pt"}

HVVVarNames ==
  {"fj_genH_jet", "fj_genV_dR", "fj_genVstar", "genV_genVstar_dR",
   "fj_nquarks", "fj_ncquarks", "fj_lepinprongs", "fj_H_VV_4q",
   "fj_H_VV_elenuqq", "fj_H_VV_munuqq", "fj_H_VV_taunuqq",
   "fj_H_VV_isVlepton", "fj_H_VV_isVstarlepton", "fj_H_VV_isMatched",
   "gen_Vlep_pt"}

HTTVarNames ==
  {"fj_H_tt_hadhad", "fj_H_tt_elehad", "fj_H_tt_muhad", "fj_H_tt_leplep",
   "fj_H_tt_isMatched"}

\* a call that raised returns nothing
Raised == [raised |-> TRUE, genVars |-> <<>>, mask |-> <<>>]

\* match_H on a batch.  Line 99, higgs[:, 0], raises an index error as
\* soon as one event of the batch has no selected Higgs.  The value
\* returned at line 218 is matched_higgs_mask alone.
match_H(gp, fj, lepton, dau_pdgid) ==
  LET n == Len(gp)
      keys == IF dau_pdgid = W_PDGID THEN HVarNames \cup HVVVarNames
              ELSE IF dau_pdgid = TAU_PDGID THEN HVarNames \cup HTTVarNames
              ELSE HVarNames
  IN IF dau_pdgid = W_PDGID /\ \E e \in 1..n : Len(higgs_of(gp[e])) = 0
     THEN Raised
     ELSE [raised |-> FALSE,
           genVars |->
             Columns(keys, [e \in 1..n |-> genVars_H_of(gp[e], fj[e], dau_pdgid)]),
           mask |-> [e \in 1..n |-> matched_higgs_mask_of(gp[e], fj[e])]]

---------------------------------------------------------------------------
(* match_V, utils.py lines 221-268, for one event of the batch *)

\* line 222
vs_of(ev) ==
  masked(Indices(ev),
         [k \in 1..Len(ev) |->
            get_pid_mask(ev, Indices(ev), <<W_PDGID, Z_PDGID>>, FALSE)[k]
            /\ hasFlags(ev[k], GEN_FLAGS)])

\* line 223: a list of one boson, or [None]
matched_vs_of(ev, jet) ==
  LET vs == vs_of(ev)
  IN take(vs, argmin([k \in 1..Len(vs) |-> delta_r(jet, ev[vs[k]])]))

\* line 224
matched_vs_mask_of(ev, jet) ==
  LET mv == matched_vs_of(ev, jet)
  IN mv # None /\ delta_r(jet, ev[mv[1]]) < JET_DR

\* lines 226-227: ak.flatten drops the None of an event without a boson
V_daughters_of(ev, jet) ==
  LET mv == matched_vs_of(ev, jet)
  IN IF mv = None THEN <<>>
     ELSE SelectSeq(children(ev, mv[1]),
                    LAMBDA i : hasFlags(ev[i], <<"fromHardProcess", "isLastCopy">>))

\* line 231
V_num_quarks_of(ev, jet) ==
  Len(SelectSeq(V_daughters_of(ev, jet), LAMBDA i : Abs(ev[i].pdgId) < b_PDGID))

\* lines 229-238
V_decay_of(ev, jet) ==
  LET daughters == V_daughters_of(ev, jet)
  IN Times(V_num_quarks_of(ev, jet) = 2, 1)
     + Times(Len(SelectSeq(daughters, LAMBDA i : Abs(ev[i].pdgId) = ELE_PDGID)) >= 1, 3)
     + Times(Len(SelectSeq(daughters, LAMBDA i : Abs(ev[i].pdgId) = MU_PDGID)) >= 1, 5)
     + Times(Len(SelectSeq(daughters, LAMBDA i : Abs(ev[i].pdgId) = TAU_PDGID)) >= 1, 7)

\* the lepton flags taken from the daughter species instead of the code
V_flags_by_species(ev, jet) ==
  LET daughters == V_daughters_of(ev, jet)
  IN [fj_V_2q |-> to_label(V_num_quarks_of(ev, jet) = 2),
      fj_V_elenu |->
        to_label(Len(SelectSeq(daughters, LAMBDA i : Abs(ev[i].pdgId) = ELE_PDGID)) >= 1),
      fj_V_munu |->
        to_label(Len(SelectSeq(daughters, LAMBDA i : Abs(ev[i].pdgId) = MU_PDGID)) >= 1),
      fj_V_taunu |->
        to_label(Len(SelectSeq(daughters, LAMBDA i : Abs(ev[i].pdgId) = TAU_PDGID)) >= 1)]

\* lines 263-266
V_flags_of(ev, jet) ==
  LET decay == V_decay_of(ev, jet)
  IN [fj_V_2q |-> to_label(decay = 1),
      fj_V_elenu |-> to_label(decay = 3),
      fj_V_munu |-> to_label(decay = 5),
      fj_V_taunu |-> to_label(decay = 7)]

\* line 256: the radius is the literal 0.8
matched_vdaus_mask_of(ev, jet) ==
  \E k \in 1..Len(V_daughters_of(ev, jet)) :
     delta_r(jet, ev[V_daughters_of(ev, jet)[k]]) < 8

\* the daughter requirement dropped
V_matched_mask_boson_only(ev, jet) == matched_vs_mask_of(ev, jet)

\* line 257
V_matched_mask_of(ev, jet) ==
  matched_vs_mask_of(ev, jet) /\ matched_vdaus_mask_of(ev, jet)

\* lines 240-254
V_counts_of(ev, jet) ==
  LET daughters == V_daughters_of(ev, jet)
      daughters_nov == SelectSeq(daughters, LAMBDA i : ~is_neutrino(ev[i]))
      lepdaughters == SelectSeq(daughters, LAMBDA i : is_lepton(ev[i]))
      cquarks == SelectSeq(daughters_nov, LAMBDA i : Abs(ev[i].pdgId) = c_PDGID)
  IN [fj_nprongs |->
        Len(SelectSeq(daughters_nov, LAMBDA i : delta_r(jet, ev[i]) < JET_DR)),
      fj_lepinprongs |->
        Len(SelectSeq(lepdaughters, LAMBDA i : delta_r(jet, ev[i]) < JET_DR)),
      fj_ncquarks |->
        Len(SelectSeq(cquarks, LAMBDA i : delta_r(jet, ev[i]) < JET_DR))]

genVars_V_of(ev, jet) ==
  Merge(Merge(V_counts_of(ev, jet),
              [fj_V_isMatched |-> V_matched_mask_of(ev, jet)]),
        V_flags_of(ev, jet))

VVarNames ==
  {"fj_nprongs", "fj_lepinprongs", "fj_ncquarks", "fj_V_isMatched",
   "fj_V_2q", "fj_V_elenu", "fj_V_munu", "fj_V_taunu"}

\* match_V on a batch.  Lines 248-250: len(lepdaughters) is the number of
\* events, so fj_lepinprongs is the integer 0 for a batch of no event.
match_V(gp, fj) ==
  LET n == Len(gp)
      cols == Columns(VVarNames, [e \in 1..n |-> genVars_V_of(gp[e], fj[e])])
  IN [raised |-> FALSE,
      genVars |-> IF n > 0 THEN cols ELSE [cols EXCEPT !["fj_lepinprongs"] = 0],
      mask |-> [e \in 1..n |-> V_matched_mask_of(gp[e], fj[e])]]

---------------------------------------------------------------------------
(* match_Top, utils.py lines 271-348, for one event of the batch *)

\* line 272
tops_of(ev) ==
  masked(Indices(ev),
         [k \in 1..Len(ev) |->
            get_pid_mask(ev, Indices(ev), <<TOP_PDGID>>, FALSE)[k]
            /\ hasFlags(ev[k], GEN_FLAGS)])

\* lines 273-274
num_matched_tops_of(ev, jet) ==
  LET matched_tops ==
        SelectSeq(tops_of(ev), LAMBDA i : delta_r(jet, ev[i]) < JET_DR)
  IN Len(SelectSeq(matched_tops, LAMBDA i : delta_r(jet, ev[i]) < JET_DR))

\* lines 277-278
Top_daughters_of(ev) ==
  LET tops == tops_of(ev)
  IN SelectSeq(flatten([k \in 1..Len(tops) |-> children(ev, tops[k])]),
               LAMBDA i : hasFlags(ev[i], <<"fromHardProcess", "isLastCopy">>))

\* lines 281-282
wboson_daughters_of(ev) ==
  LET ws == SelectSeq(Top_daughters_of(ev), LAMBDA i : Abs(ev[i].pdgId) = W_PDGID)
  IN SelectSeq(flatten([k \in 1..Len(ws) |-> children(ev, ws[k])]),
               LAMBDA i : hasFlags(ev[i], <<"fromHardProcess", "isLastCopy">>))

\* ak.sum of a list of integers
RECURSIVE sum(_)
sum(s) == IF Len(s) = 0 THEN 0 ELSE Head(s) + sum(Tail(s))

\* lines 304-318: the code of one tau, from its last-copy children
tau_code_of(ev, ps) ==
  Times(Len(SelectSeq(ps, LAMBDA i : Abs(ev[i].pdgId) = ELE_PDGID
                                     \/ Abs(ev[i].pdgId) = MU_PDGID)) = 0, 1)
  + Times(Len(SelectSeq(ps, LAMBDA i : Abs(ev[i].pdgId) = ELE_PDGID)) = 1, 3)
  + Times(Len(SelectSeq(ps, LAMBDA i : Abs(ev[i].pdgId) = MU_PDGID)) = 1, 5)

\* lines 301-320: one code per tau among the W daughters, summed over them
Top_taudecay_of(ev) ==
  LET taus == SelectSeq(wboson_daughters_of(ev),
                        LAMBDA i : Abs(ev[i].pdgId) = TAU_PDGID)
      taudaughters ==
        [k \in 1..Len(taus) |->
           SelectSeq(children(ev, taus[k]),
                     LAMBDA i : hasFlags(ev[i], <<"isLastCopy">>))]
  IN sum([k \in 1..Len(taus) |-> tau_code_of(ev, taudaughters[k])])

\* the daughter requirement dropped
Top_matched_mask_tops_only(ev, jet) ==
  \E k \in 1..Len(tops_of(ev)) : delta_r(jet, ev[tops_of(ev)[k]]) < JET_DR

\* lines 331-333
Top_matched_mask_of(ev, jet) ==
  /\ \E k \in 1..Len(tops_of(ev)) : delta_r(jet, ev[tops_of(ev)[k]]) < JET_DR
  /\ \E k \in 1..Len(Top_daughters_of(ev)) :
        delta_r(jet, ev[Top_daughters_of(ev)[k]]) < JET_DR

\* the muon mask with the electron code
Top_muons_ele_code(p) == Abs(p.pdgId) = ELE_PDGID

\* line 297
Top_muons(p) == Abs(p.pdgId) = MU_PDGID

\* lines 285-298, 323-329, 335-346
genVars_Top_of(ev, jet) ==
  LET daughters == Top_daughters_of(ev)
      wd == wboson_daughters_of(ev)
      bquark == SelectSeq(daughters, LAMBDA i : Abs(ev[i].pdgId) = 5)
      matched(P(_)) ==
        Len(SelectSeq(SelectSeq(wd, P), LAMBDA i : delta_r(jet, ev[i]) < JET_DR))
  IN [fj_Top_isMatched |-> Top_matched_mask_of(ev, jet),
      fj_Top_numMatched |-> num_matched_tops_of(ev, jet),
      fj_Top_nquarksnob |->
        matched(LAMBDA i : ~is_lepton(ev[i]) /\ ~is_neutrino(ev[i])),
      fj_Top_nbquarks |->
        Len(SelectSeq(bquark, LAMBDA i : delta_r(jet, ev[i]) < JET_DR)),
      fj_Top_ncquarks |-> matched(LAMBDA i : Abs(ev[i].pdgId) = c_PDGID),
      fj_Top_nleptons |-> matched(LAMBDA i : is_lepton(ev[i])),
      fj_Top_nele |-> matched(LAMBDA i : Abs(ev[i].pdgId) = ELE_PDGID),
      fj_Top_nmu |-> matched(LAMBDA i : Top_muons(ev[i])),
      fj_Top_ntau |-> matched(LAMBDA i : Abs(ev[i].pdgId) = TAU_PDGID),
      fj_Top_taudecay |-> Top_taudecay_of(ev)]

TopVarNames ==
  {"fj_Top_isMatched", "fj_Top_numMatched", "fj_Top_nquarksnob",
   "fj_Top_nbquarks", "fj_Top_ncquarks", "fj_Top_nleptons", "fj_Top_nele",
   "fj_Top_nmu", "fj_Top_ntau", "fj_Top_taudecay"}

match_Top(gp, fj) ==
  LET n == Len(gp)
  IN [raised |-> FALSE,
      genVars |->
        Columns(TopVarNames, [e \in 1..n |-> genVars_Top_of(gp[e], fj[e])]),
      mask |-> [e \in 1..n |-> Top_matched_mask_of(gp[e], fj[e])]]

---------------------------------------------------------------------------
(* match_QCD, utils.py lines 351-371, for one event of the batch *)

\* line 358: [g_PDGID] + list(range(1, b_PDGID + 1))
parton_pdgids == <<g_PDGID>> \o [k \in 1..b_PDGID |-> k]

\* lines 358-359
QCD_matched_mask_of(ev, jet) ==
  LET partons ==
        masked(Indices(ev), get_pid_mask(ev, Indices(ev), parton_pdgids, FALSE))
  IN \E k \in 1..Len(partons) : delta_r(jet, ev[partons[k]]) < JET_DR

\* the charm labels without the veto on b hadrons
genVars_QCD_no_veto(jet) ==
  [fj_QCDb |-> to_label(jet.nBHadrons = 1),
   fj_QCDbb |-> to_label(jet.nBHadrons > 1),
   fj_QCDc |-> to_label(jet.nCHadrons = 1),
   fj_QCDcc |-> to_label(jet.nCHadrons > 1),
   fj_QCDothers |-> to_label(jet.nBHadrons = 0 /\ jet.nCHadrons = 0)]

\* lines 361-369
genVars_QCD_of(jet) ==
  [fj_QCDb |-> to_label(jet.nBHadrons = 1),
   fj_QCDbb |-> to_label(jet.nBHadrons > 1),
   fj_QCDc |-> to_label(jet.nCHadrons = 1 /\ jet.nBHadrons = 0),
   fj_QCDcc |-> to_label(jet.nCHadrons > 1 /\ jet.nBHadrons = 0),
   fj_QCDothers |-> to_label(jet.nBHadrons = 0 /\ jet.nCHadrons = 0)]

QCDVarNames ==
  {"fj_QCDb", "fj_QCDbb", "fj_QCDc", "fj_QCDcc", "fj_QCDothers"}

match_QCD(gp, fj) ==
  LET n == Len(gp)
  IN [raised |-> FALSE,
      genVars |-> Columns(QCDVarNames, [e \in 1..n |-> genVars_QCD_of(fj[e])]),
      mask |-> [e \in 1..n |-> QCD_matched_mask_of(gp[e], fj[e])]]

---------------------------------------------------------------------------
(* tagger_gen_matching, utils.py lines 386-444 *)

\* pattern in label, on strings held as sequences of characters
Contains(pattern, label) ==
  \E i \in 0..(Len(label) - Len(pattern)) :
     SubSeq(label, i + 1, i + Len(pattern)) = pattern

Range(s) == {s[i] : i \in 1..Len(s)}

\* a fill of ones in place of zeros
np_zeros_ones(n) == [e \in 1..n |-> 1]

\* np.zeros(n)
np_zeros(n) == [e \in 1..n |-> 0]

\* np.zeros(n, dtype="bool")
np_zeros_bool(n) == [e \in 1..n |-> FALSE]

\* A call of match_H with the positional arguments args, against the
\* signature of line 72: genparts, fatjet and lepton are required, and a
\* call that leaves one out raises TypeError
call_match_H(args) ==
  IF Len(args) < 3 THEN Raised
  ELSE match_H(args[1], args[2], args[3],
               IF Len(args) > 3 THEN args[4] ELSE W_PDGID)

\* line 415: genVars["fj_genRes_mass"] = np.ones(len(events)) * 125, reached
\* when the call of line 414 returned
with_genRes_mass(r, n) ==
  IF r.raised THEN r
  ELSE [r EXCEPT !.genVars = Merge(@, [fj_genRes_mass |-> [e \in 1..n |-> 125]])]

\* lines 412-428: the classifier the label selects
classify(events, gp, fj, label) ==
  IF Contains(<<"H">>, label)
  THEN with_genRes_mass(call_match_H(<<gp, fj>>), Len(events))
  ELSE IF Contains(<<"Q", "C", "D">>, label) THEN match_QCD(gp, fj)
  ELSE IF Contains(<<"V", "J", "e", "t", "s">>, label) THEN match_V(gp, fj)
  ELSE IF Contains(<<"T", "o", "p">>, label) THEN match_Top(gp, fj)
  ELSE [raised |-> FALSE, genVars |-> <<>>, mask |-> np_zeros_bool(Len(gp))]

\* lines 437-442: what each requested variable is before the conversion: a
\* numpy array (the zero fill and fj_genRes_mass), a jagged awkward array,
\* the integer 0, or a flat or option-typed awkward array
JaggedVarNames == {"fj_genH_pt"}

prior_repr_of(key, AllGenVars, n) ==
  IF key \notin DOMAIN AllGenVars THEN "numpy"
  ELSE IF key = "fj_genRes_mass" THEN "numpy"
  ELSE IF key \in JaggedVarNames THEN "awkward"
  ELSE IF key = "fj_lepinprongs" /\ n = 0 /\ "fj_nprongs" \in DOMAIN AllGenVars
  THEN "int"
  ELSE "awkward_flat"

\* .to_numpy() raises on a jagged array (ValueError), on a numpy array and
\* on an integer (AttributeError); it succeeds on a flat awkward array
to_numpy_raises(repr) == repr \in {"numpy", "awkward", "int"}

\* lines 439-442: one turn of the loop; a failure is swallowed and the
\* variable stays as it was
try_to_numpy(repr) == IF to_numpy_raises(repr) THEN repr ELSE "numpy"

repr_of(key, AllGenVars, n) == try_to_numpy(prior_repr_of(key, AllGenVars, n))

\* a loop that stops at the first failure
RECURSIVE to_numpy_loop_break(_, _, _)
to_numpy_loop_break(keys, reprs, i) ==
  IF i > Len(keys) \/ to_numpy_raises(reprs[keys[i]]) THEN reprs
  ELSE to_numpy_loop_break(keys, [reprs EXCEPT ![keys[i]] = "numpy"], i + 1)

\* lines 438-442: the loop over the requested variables, in their order
RECURSIVE to_numpy_loop(_, _, _)
to_numpy_loop(keys, reprs, i) ==
  IF i > Len(keys) THEN reprs
  ELSE to_numpy_loop(keys, [reprs EXCEPT ![keys[i]] = try_to_numpy(@)], i + 1)

\* lines 435-444: the requested names, zero-filled where the classifier
\* produced no value
GenVars_of(AllGenVars, mask, genlabels, n) ==
  [raised |-> FALSE,
   genVars |->
     [key \in Range(genlabels) |->
        IF key \in DOMAIN AllGenVars THEN AllGenVars[key] ELSE np_zeros(n)],
   mask |-> mask,
   prior |-> [key \in Range(genlabels) |-> prior_repr_of(key, AllGenVars, n)],
   repr |-> to_numpy_loop(genlabels,
              [key \in Range(genlabels) |-> prior_repr_of(key, AllGenVars, n)], 1)]

\* lines 430-433: AllGenVars is the classifier's variables and fj_genjetmass
AllGenVars_of(r, fj, genlabels, n) ==
  IF r.raised
  THEN [raised |-> TRUE, genVars |-> <<>>, mask |-> <<>>, prior |-> <<>>,
        repr |-> <<>>]
  ELSE GenVars_of(
         Merge(r.genVars,
               [fj_genjetmass |-> [e \in 1..Len(fj) |-> fj[e].matched_gen_mass]]),
         r.mask, genlabels, n)

tagger_gen_matching(events, gp, fj, genlabels, label) ==
  AllGenVars_of(classify(events, gp, fj, label), fj, genlabels, Len(gp))

---------------------------------------------------------------------------
(* Floating-point values: a finite value is an exact fraction n/d in lowest *)
(* terms, next to NaN and the two infinities.  A square root that is not a  *)
(* fraction is kept as the root of one ("surd") and enters no arithmetic.   *)

RECURSIVE gcd(_, _)
gcd(m, n) == IF n = 0 THEN m ELSE gcd(n, m % n)

Sign(n) == IF n > 0 THEN 1 ELSE IF n < 0 THEN -1 ELSE 0

Norm(n, d, g) == [k |-> "fin", n |-> (Sign(d) * n) \div g, d |-> Abs(d) \div g]

\* the fraction n/d, d # 0
Fin(n, d) == Norm(n, d, gcd(Abs(n), Abs(d)))

NaN == [k |-> "nan", n |-> 0, d |-> 1]
PInf == [k |-> "pinf", n |-> 1, d |-> 0]
NInf == [k |-> "ninf", n |-> -1, d |-> 0]

\* the largest finite double, what nan_to_num puts in place of an infinity
FLOAT_MAX == 1000000000

IsInf(u) == u.k = "pinf" \/ u.k = "ninf"

Inf(sign) == IF sign > 0 THEN PInf ELSE NInf

fneg(u) == IF u.k = "fin" THEN [u EXCEPT !.n = -u.n]
           ELSE IF u.k = "pinf" THEN NInf
           ELSE IF u.k = "ninf" THEN PInf
           ELSE NaN

fadd(u, v) ==
  IF u.k = "nan" \/ v.k = "nan" THEN NaN
  ELSE IF IsInf(u) /\ IsInf(v) THEN (IF u.k = v.k THEN u ELSE NaN)
  ELSE IF IsInf(u) THEN u
  ELSE IF IsInf(v) THEN v
  ELSE Fin(u.n * v.d + v.n * u.d, u.d * v.d)

fsub(u, v) == fadd(u, fneg(v))

fmul(u, v) ==
  IF u.k = "nan" \/ v.k = "nan" THEN NaN
  ELSE IF IsInf(u) \/ IsInf(v)
  THEN (IF u.n = 0 \/ v.n = 0 THEN NaN ELSE Inf(Sign(u.n) * Sign(v.n)))
  ELSE Fin(u.n * v.n, u.d * v.d)

\* a zero divisor is +0: it comes from a difference or a product of finite
\* values
fdiv(u, v) ==
  IF u.k = "nan" \/ v.k = "nan" THEN NaN
  ELSE IF IsInf(u) THEN (IF IsInf(v) THEN NaN
                         ELSE IF v.n < 0 THEN fneg(u) ELSE u)
  ELSE IF IsInf(v) THEN Fin(0, 1)
  ELSE IF v.n = 0 THEN (IF u.n = 0 THEN NaN ELSE Inf(Sign(u.n)))
  ELSE Fin(u.n * v.d, u.d * v.n)

\* u < v, false when one of them is NaN
flt(u, v) ==
  IF u.k = "nan" \/ v.k = "nan" THEN FALSE
  ELSE IF u.k = "pinf" \/ v.k = "ninf" THEN FALSE
  ELSE IF u.k = "ninf" \/ v.k = "pinf" THEN TRUE
  ELSE u.n * v.d < v.n * u.d

\* np.maximum: NaN as soon as one operand is NaN
fmax(u, v) ==
  IF u.k = "nan" \/ v.k = "nan" THEN NaN
  ELSE IF flt(u, v) THEN v ELSE u

RECURSIVE newton(_, _)
newton(n, x) ==
  IF (x + n \div x) \div 2 >= x THEN x ELSE newton(n, (x + n \div x) \div 2)

\* the integer part of the square root of n >= 0
isqrt(n) == IF n = 0 THEN 0 ELSE newton(n, n)

IsSquare(n) == n >= 0 /\ isqrt(n) * isqrt(n) = n

\* np.sqrt: NaN for a negative value
fsqrt(u) ==
  IF u.k = "nan" \/ u.k = "ninf" THEN NaN
  ELSE IF u.k = "pinf" THEN PInf
  ELSE IF u.n < 0 THEN NaN
  ELSE IF IsSquare(u.n) /\ IsSquare(u.d) THEN Fin(isqrt(u.n), isqrt(u.d))
  ELSE [k |-> "surd", n |-> u.n, d |-> u.d]

\* ak.nan_to_num kept out
nan_to_num_off(u) == u

\* ak.nan_to_num: 0 for NaN, the largest finite values for the infinities
nan_to_num(u) ==
  IF u.k = "nan" THEN Fin(0, 1)
  ELSE IF u.k = "pinf" THEN Fin(FLOAT_MAX, 1)
  ELSE IF u.k = "ninf" THEN Fin(-FLOAT_MAX, 1)
  ELSE u

\* a boolean as a factor of a product
FromBool(b) == IF b THEN Fin(1, 1) ELSE Fin(0, 1)

I(n) == Fin(n, 1)

---------------------------------------------------------------------------
(* get_neutrino_z, utils.py lines 494-520 *)

\* line 500
quad_a(vis, inv, h_mass) ==
  fadd(fadd(fsub(fmul(h_mass, h_mass), fmul(vis.mass, vis.mass)),
            fmul(fmul(I(2), vis.x), inv.x)),
       fmul(fmul(I(2), vis.y), inv.y))

\* line 501
quad_A(vis) == fmul(I(4), fsub(fmul(vis.t, vis.t), fmul(vis.z, vis.z)))

\* line 502
quad_B(vis, a) == fmul(fmul(I(-4), a), vis.z)

\* line 503
quad_C(vis, inv, a) ==
  fsub(fmul(fmul(fmul(I(4), vis.t), vis.t),
            fadd(fmul(inv.x, inv.x), fmul(inv.y, inv.y))),
       fmul(a, a))

\* line 504
quad_delta(A, B, C) == fsub(fmul(B, B), fmul(fmul(I(4), A), C))

\* lines 505-506
quad_neg(A, B) == nan_to_num(fdiv(fneg(B), fmul(I(2), A)))

\* lines 507-508
quad_pos(A, B, root) ==
  nan_to_num(fmax(fdiv(fadd(fneg(B), root), fmul(I(2), A)),
                  fdiv(fsub(fneg(B), root), fmul(I(2), A))))

\* line 510
invZ_of(delta, neg, pos) ==
  fadd(fmul(FromBool(flt(delta, I(0))), neg),
       fmul(FromBool(flt(I(0), delta)), pos))

\* lines 511-519
neutrino_of(inv, invZ) ==
  [x |-> inv.x, y |-> inv.y, z |-> invZ,
   t |-> fsqrt(fadd(fadd(fmul(inv.x, inv.x), fmul(inv.y, inv.y)),
                    fmul(invZ, invZ)))]

neutrino_from(inv, A, B, delta) ==
  neutrino_of(inv, invZ_of(delta, quad_neg(A, B), quad_pos(A, B, fsqrt(delta))))

neutrino_with(vis, inv, a) ==
  neutrino_from(inv, quad_A(vis), quad_B(vis, a),
                quad_delta(quad_A(vis), quad_B(vis, a), quad_C(vis, inv, a)))

get_neutrino_z(vis, inv, h_mass) ==
  neutrino_with(vis, inv, quad_a(vis, inv, h_mass))

---------------------------------------------------------------------------
(* Input batches: events are built particle by particle, depth first *)

\* inside the association radius, and exactly on it
Near == DEFAULT_JET_DR - 5
Edge == DEFAULT_JET_DR

Particle(t, index, parent) ==
  [pdgId |-> t.pdgId, fromHardProcess |-> t.fromHardProcess,
   isLastCopy |-> t.isLastCopy, eta |-> t.eta, mass |-> t.mass,
   pt |-> 100 + 10 * index, parent |-> parent]

Template(pdgId, fromHardProcess, isLastCopy, eta, mass) ==
  [pdgId |-> pdgId, fromHardProcess |-> fromHardProcess,
   isLastCopy |-> isLastCopy, eta |-> eta, mass |-> mass]

Jet(nB, nC, genmass) ==
  [eta |-> 0, nBHadrons |-> nB, nCHadrons |-> nC, matched_gen_mass |-> genmass]

HiggsMenu ==
  {Template(HIGGS_PDGID, TRUE, TRUE, Near, 125),
   Template(HIGGS_PDGID, TRUE, TRUE, Edge, 125),
   Template(HIGGS_PDGID, TRUE, FALSE, Near, 125)}

WChildMenu ==
  {Template(W_PDGID, TRUE, TRUE, Near, 80),
   Template(-W_PDGID, TRUE, TRUE, Edge, 40)}

WDauMenu ==
  {Template(d_PDGID, TRUE, TRUE, Near, 0),
   Template(-2, TRUE, TRUE, Edge, 0),
   Template(ELE_PDGID, TRUE, TRUE, Near, 0),
   Template(MU_PDGID, TRUE, TRUE, Near, 0),
   Template(-MU_PDGID, TRUE, TRUE, Edge, 0),
   Template(-TAU_PDGID, TRUE, TRUE, Near, 0),
   Template(-vMU_PDGID, TRUE, TRUE, Edge, 0)}

TauChildMenu ==
  {Template(TAU_PDGID, TRUE, TRUE, Near, 2),
   Template(-TAU_PDGID, TRUE, TRUE, Edge, 2),
   Template(W_PDGID, TRUE, TRUE, Near, 80)}

TauDauMenu ==
  {Template(PI_PDGID, TRUE, TRUE, Near, 0),
   Template(-PP_PDGID, TRUE, TRUE, Near, 0),
   Template(ELE_PDGID, TRUE, TRUE, Near, 0),
   Template(-MU_PDGID, TRUE, TRUE, Near, 0),
   Template(MU_PDGID, TRUE, FALSE, Near, 0),
   Template(vTAU_PDGID, TRUE, TRUE, Edge, 0)}

\* the event under construction is the last one of the batch
Cur == genparts[Len(genparts)]

TopLevel(ev) == SelectSeq(Indices(ev), LAMBDA i : ev[i].parent = 0)

LastOf(s) == s[Len(s)]

Append1(t, parent) ==
  genparts' = [genparts EXCEPT ![Len(genparts)] =
                 Append(@, Particle(t, Len(@) + 1, parent))]

AddTop(t, maxTop) ==
  /\ pc = "build"
  /\ Len(genparts) > 0
  /\ Len(Cur) < MaxParts
  /\ Len(TopLevel(Cur)) < maxTop
  /\ Append1(t, 0)
  /\ UNCHANGED <<fatjets, pc, call, ret, JET_DR>>

AddChild(t) ==
  /\ pc = "build"
  /\ Len(genparts) > 0
  /\ Len(Cur) < MaxParts
  /\ Len(TopLevel(Cur)) > 0
  /\ LET top == LastOf(TopLevel(Cur))
     IN /\ Len(children(Cur, top)) < MaxChildren
        /\ Append1(t, top)
  /\ UNCHANGED <<fatjets, pc, call, ret, JET_DR>>

AddDau(t) ==
  /\ pc = "build"
  /\ Len(genparts) > 0
  /\ Len(Cur) < MaxParts
  /\ Len(TopLevel(Cur)) > 0
  /\ LET top == LastOf(TopLevel(Cur))
         ch == children(Cur, top)
     IN /\ Len(ch) > 0
        /\ Len(children(Cur, LastOf(ch))) < MaxDaus
        /\ Append1(t, LastOf(ch))
  /\ UNCHANGED <<fatjets, pc, call, ret, JET_DR>>

\* one more generation: a child of the last daughter of the last child
AddKid(t, maxParts) ==
  /\ pc = "build"
  /\ Len(genparts) > 0
  /\ Len(Cur) < maxParts
  /\ Len(TopLevel(Cur)) > 0
  /\ LET top == LastOf(TopLevel(Cur))
         ch == children(Cur, top)
     IN /\ Len(ch) > 0
        /\ Len(children(Cur, LastOf(ch))) > 0
        /\ Len(children(Cur, LastOf(children(Cur, LastOf(ch))))) < MaxKids
        /\ Append1(t, LastOf(children(Cur, LastOf(ch))))
  /\ UNCHANGED <<fatjets, pc, call, ret, JET_DR>>

NoCall == [fn |-> "none"]
NoRet == [raised |-> FALSE, genVars |-> <<>>, mask |-> <<>>]

InitOneEvent ==
  /\ genparts = << <<>> >>
  /\ fatjets = << Jet(0, 0, 100) >>
  /\ pc = "build"
  /\ call = NoCall
  /\ ret = NoRet
  /\ JET_DR = DEFAULT_JET_DR

---------------------------------------------------------------------------
(* Calls *)

Run_match_H(dau_pdgid) ==
  /\ pc = "build"
  /\ call' = [fn |-> "match_H", dau_pdgid |-> dau_pdgid]
  /\ ret' = match_H(genparts, fatjets, "lepton", dau_pdgid)
  /\ pc' = "done"
  /\ UNCHANGED <<genparts, fatjets, JET_DR>>

---------------------------------------------------------------------------
(* match_H on one event, Higgs -> WW (the default dau_pdgid) *)

NextHWW ==
  \/ \E t \in HiggsMenu : AddTop(t, MaxHiggs)
  \/ \E t \in WChildMenu : AddChild(t)
  \/ \E t \in WDauMenu : AddDau(t)
  \/ Run_match_H(W_PDGID)

SpecHWW == InitOneEvent /\ [][NextHWW]_vars

(* match_H on one event, Higgs -> tau tau *)

NextHtt ==
  \/ \E t \in HiggsMenu : AddTop(t, MaxHiggs)
  \/ \E t \in TauChildMenu : AddChild(t)
  \/ \E t \in TauDauMenu : AddDau(t)
  \/ Run_match_H(TAU_PDGID)

SpecHtt == InitOneEvent /\ [][NextHtt]_vars

(* match_V on one event *)

VMenu ==
  {Template(W_PDGID, TRUE, TRUE, Near, 80),
   Template(Z_PDGID, TRUE, TRUE, Edge, 91),
   Template(-W_PDGID, TRUE, FALSE, Near, 80)}

VDauMenu ==
  {Template(d_PDGID, TRUE, TRUE, Near, 0),
   Template(b_PDGID, TRUE, TRUE, Near, 0),
   Template(-b_PDGID, TRUE, TRUE, Edge, 0),
   Template(ELE_PDGID, TRUE, TRUE, Near, 0),
   Template(-MU_PDGID, TRUE, TRUE, Near, 0),
   Template(TAU_PDGID, TRUE, TRUE, Edge, 0),
   Template(-vELE_PDGID, TRUE, TRUE, Near, 0),
   Template(2, TRUE, FALSE, Near, 0)}

Run_match_V ==
  /\ pc = "build"
  /\ call' = [fn |-> "match_V"]
  /\ ret' = match_V(genparts, fatjets)
  /\ pc' = "done"
  /\ UNCHANGED <<genparts, fatjets, JET_DR>>

NextV ==
  \/ \E t \in VMenu : AddTop(t, MaxBosons)
  \/ \E t \in VDauMenu : AddChild(t)
  \/ Run_match_V

SpecV == InitOneEvent /\ [][NextV]_vars

(* match_Top on one event *)

TopMenu ==
  {Template(TOP_PDGID, TRUE, TRUE, Near, 173),
   Template(-TOP_PDGID, TRUE, TRUE, Edge, 173)}

TopChildMenu ==
  {Template(W_PDGID, TRUE, TRUE, Near, 80),
   Template(b_PDGID, TRUE, TRUE, Edge, 4)}

TopDauMenu ==
  {Template(-TAU_PDGID, TRUE, TRUE, Near, 2),
   Template(c_PDGID, TRUE, TRUE, Near, 1)}

TauKidMenu ==
  {Template(PI_PDGID, FALSE, TRUE, Near, 0),
   Template(ELE_PDGID, FALSE, TRUE, Near, 0),
   Template(-MU_PDGID, FALSE, TRUE, Near, 0)}

Run_match_Top ==
  /\ pc = "build"
  /\ call' = [fn |-> "match_Top"]
  /\ ret' = match_Top(genparts, fatjets)
  /\ pc' = "done"
  /\ UNCHANGED <<genparts, fatjets, JET_DR>>

NextTop ==
  \/ \E t \in TopMenu : AddTop(t, MaxBosons)
  \/ \E t \in TopChildMenu : AddChild(t)
  \/ \E t \in TopDauMenu : AddDau(t)
  \/ \E t \in TauKidMenu : AddKid(t, MaxTopParts)
  \/ Run_match_Top

SpecTop == InitOneEvent /\ [][NextTop]_vars

(* match_Top on one event with one top and every species of W daughter *)

TopWChildMenu ==
  {Template(W_PDGID, TRUE, TRUE, Near, 80),
   Template(b_PDGID, TRUE, TRUE, Near, 4)}

TopWDauMenu ==
  {Template(ELE_PDGID, TRUE, TRUE, Near, 0),
   Template(-MU_PDGID, TRUE, TRUE, Near, 0),
   Template(MU_PDGID, TRUE, TRUE, Edge, 0),
   Template(TAU_PDGID, TRUE, TRUE, Near, 2),
   Template(-c_PDGID, TRUE, TRUE, Near, 1),
   Template(d_PDGID, TRUE, TRUE, Near, 0),
   Template(vMU_PDGID, TRUE, TRUE, Near, 0)}

NextTopLep ==
  \/ \E t \in TopMenu : AddTop(t, MaxHiggs)
  \/ \E t \in TopWChildMenu : AddChild(t)
  \/ \E t \in TopWDauMenu : AddDau(t)
  \/ Run_match_Top

SpecTopLep == InitOneEvent /\ [][NextTopLep]_vars

(* match_QCD on one event, for every pair of hadron counts of the jet *)

PartonMenu ==
  {Template(g_PDGID, TRUE, TRUE, Near, 0),
   Template(-b_PDGID, TRUE, TRUE, Edge, 4),
   Template(ELE_PDGID, TRUE, TRUE, Near, 0)}

InitQCD ==
  /\ genparts = << <<>> >>
  /\ \E nB \in 0..MaxHadrons, nC \in 0..MaxHadrons :
        fatjets = << Jet(nB, nC, 100) >>
  /\ pc = "build"
  /\ call = NoCall
  /\ ret = NoRet
  /\ JET_DR = DEFAULT_JET_DR

Run_match_QCD ==
  /\ pc = "build"
  /\ call' = [fn |-> "match_QCD"]
  /\ ret' = match_QCD(genparts, fatjets)
  /\ pc' = "done"
  /\ UNCHANGED <<genparts, fatjets, JET_DR>>

NextQCD ==
  \/ \E t \in PartonMenu : AddTop(t, MaxBosons)
  \/ Run_match_QCD

SpecQCD == InitQCD /\ [][NextQCD]_vars

(* get_neutrino_z on one visible system and one missing momentum.  Momenta *)
(* are integers in units of 25 GeV; the inputs are those for which the     *)
(* visible mass and the root of the discriminant are exact.                *)

\* h_mass=125, line 494, in units of 25 GeV
H_MASS == 5

HMassMenu == {H_MASS - 2, H_MASS, H_MASS + 3}

Vec(t, x, y, z, mass) ==
  [t |-> I(t), x |-> I(x), y |-> I(y), z |-> I(z), mass |-> I(mass)]

Met(x, y) == [x |-> I(x), y |-> I(y)]

ExactRoot(vis, inv, h_mass) ==
  IsSquare(quad_delta(quad_A(vis),
                      quad_B(vis, quad_a(vis, inv, h_mass)),
                      quad_C(vis, inv, quad_a(vis, inv, h_mass))).n)
  \/ quad_delta(quad_A(vis),
                quad_B(vis, quad_a(vis, inv, h_mass)),
                quad_C(vis, inv, quad_a(vis, inv, h_mass))).n < 0

InitNu ==
  /\ genparts = <<>>
  /\ fatjets = <<>>
  /\ pc = "build"
  /\ ret = NoRet
  /\ JET_DR = DEFAULT_JET_DR
  /\ \E t \in 0..MaxE, x \in (1 - MaxE)..(MaxE - 1), y \in 0..1,
        z \in (1 - MaxE)..(MaxE - 1), mass \in 0..MaxE,
        ix \in (-MaxMet)..MaxMet, iy \in 0..1, h \in HMassMenu :
        /\ mass * mass = t * t - x * x - y * y - z * z
        /\ ExactRoot(Vec(t, x, y, z, mass), Met(ix, iy), I(h))
        /\ call = [fn |-> "get_neutrino_z", vis |-> Vec(t, x, y, z, mass),
                   inv |-> Met(ix, iy), h_mass |-> I(h)]

Run_get_neutrino_z ==
  /\ pc = "build"
  /\ call.fn = "get_neutrino_z"
  /\ ret' = get_neutrino_z(call.vis, call.inv, call.h_mass)
  /\ pc' = "done"
  /\ UNCHANGED <<genparts, fatjets, call, JET_DR>>

NextNu == Run_get_neutrino_z

SpecNu == InitNu /\ [][NextNu]_vars

(* The four classifiers on one event, with JET_DR at its default and set *)
(* to another value *)

\* a wider radius, and a particle exactly on it
Wide == DEFAULT_JET_DR + 2

RadiusMenu == {DEFAULT_JET_DR, Wide}

DRTopMenu ==
  {Template(HIGGS_PDGID, TRUE, TRUE, Near, 125),
   Template(HIGGS_PDGID, TRUE, TRUE, Edge, 125),
   Template(Z_PDGID, TRUE, TRUE, Near, 91),
   Template(-TOP_PDGID, TRUE, TRUE, Wide, 173),
   Template(g_PDGID, TRUE, TRUE, Wide, 0)}

DRChildMenu ==
  {Template(d_PDGID, TRUE, TRUE, Near, 0),
   Template(-d_PDGID, TRUE, TRUE, Edge, 0)}

InitDR ==
  /\ genparts = << <<>> >>
  /\ fatjets = << Jet(0, 0, 100) >>
  /\ pc = "build"
  /\ call = NoCall
  /\ ret = NoRet
  /\ JET_DR \in RadiusMenu

NextDR ==
  \/ \E t \in DRTopMenu : AddTop(t, MaxBosons)
  \/ \E t \in DRChildMenu : AddChild(t)
  \/ Run_match_H(TAU_PDGID)
  \/ Run_match_V
  \/ Run_match_Top
  \/ Run_match_QCD

SpecDR == InitDR /\ [][NextDR]_vars

(* get_pid_mask on one group of particles *)

PidMenu ==
  {Template(ELE_PDGID, TRUE, TRUE, Near, 0),
   Template(-ELE_PDGID, TRUE, TRUE, Near, 0),
   Template(-W_PDGID, TRUE, TRUE, Near, 80),
   Template(b_PDGID, TRUE, TRUE, Near, 4)}

\* a single code is passed as a list of one
PdgidLists == {<<ELE_PDGID>>, <<W_PDGID, ELE_PDGID>>, <<-ELE_PDGID>>}

Run_get_pid_mask(pdgids, byall) ==
  /\ pc = "build"
  /\ call' = [fn |-> "get_pid_mask", pdgids |-> pdgids, byall |-> byall,
              genparts |-> genparts]
  /\ ret' = [raised |-> FALSE, genVars |-> <<>>,
             mask |-> get_pid_mask(Cur, Indices(Cur), pdgids, byall)]
  /\ pc' = "done"
  /\ UNCHANGED <<genparts, fatjets, JET_DR>>

NextPid ==
  \/ \E t \in PidMenu : AddTop(t, MaxChildren + 1)
  \/ \E pdgids \in PdgidLists, byall \in BOOLEAN : Run_get_pid_mask(pdgids, byall)

SpecPid == InitOneEvent /\ [][NextPid]_vars

(* match_H on one event with up to MaxBosons Higgs candidates *)

NextHpt ==
  \/ \E t \in HiggsMenu : AddTop(t, MaxBosons)
  \/ \E t \in TauChildMenu : AddChild(t)
  \/ \E dau_pdgid \in {W_PDGID, TAU_PDGID} : Run_match_H(dau_pdgid)

SpecHpt == InitOneEvent /\ [][NextHpt]_vars

(* match_H, Higgs -> WW, on one event with up to two Higgs candidates and *)
(* heavy-flavour daughters *)

HHTopMenu ==
  {Template(HIGGS_PDGID, TRUE, TRUE, Near, 125),
   Template(HIGGS_PDGID, TRUE, TRUE, Edge, 125)}

HHChildMenu ==
  {Template(W_PDGID, TRUE, TRUE, Near, 80)}

HHDauMenu ==
  {Template(c_PDGID, TRUE, TRUE, Near, 0),
   Template(b_PDGID, TRUE, TRUE, Near, 0),
   Template(-b_PDGID, TRUE, TRUE, Near, 0),
   Template(ELE_PDGID, TRUE, TRUE, Near, 0)}

NextHH ==
  \/ \E t \in HHTopMenu : AddTop(t, MaxBosons)
  \/ \E t \in HHChildMenu : AddChild(t)
  \/ \E t \in HHDauMenu : AddDau(t)
  \/ Run_match_H(W_PDGID)

SpecHH == InitOneEvent /\ [][NextHH]_vars

(* wrapped_triton and runInferenceTriton (run_tagger_inference.py): the *)
(* client splits the events into batches and sends one request per batch *)

MaxN == 4
MaxBatch == 3

\* the score columns that runInferenceTriton reads
NumScores == 6

PnetVarNames ==
  <<"fj_ttbar_bmerged", "fj_ttbar_bsplit", "fj_wjets_label",
    "fj_isHVV_elenuqq", "fj_isHVV_munuqq", "fj_isHVV_taunuqq">>

\* the keys of tagger_inputs
InputNames == {"pf_features__0", "sv_features__1"}

FeatureValues == 0..1

Protocols == {"grpc", "http", "udp"}

\* a slice that also takes the element at hi
slice_inclusive(arr, lo, hi) ==
  SubSeq(arr, lo + 1, IF hi + 1 < Len(arr) THEN hi + 1 ELSE Len(arr))

\* arr[lo : hi] of an array, 0-based and clipped at its end
slice(arr, lo, hi) ==
  SubSeq(arr, lo + 1, IF hi < Len(arr) THEN hi ELSE Len(arr))

\* range(0, n, step)
range_step(n, step) == [k \in 1..((n + step - 1) \div step) |-> (k - 1) * step]

\* input_dict[first key].shape[0]
input_size_of(input_dict) == Len(input_dict[CHOOSE key \in DOMAIN input_dict : TRUE])

\* {key: input_dict[key][batch: batch + batch_size] for key in input_dict}
batch_of(input_dict, batch, batch_size) ==
  [key \in DOMAIN input_dict |-> slice(input_dict[key], batch, batch + batch_size)]

\* the score vector the served model gives one event
model_scores(pf, sv) == [c \in 1..NumScores |-> pf + c * sv]

\* request.as_numpy(out_name): one score vector per event of the request
as_numpy(inputs) ==
  [i \in 1..input_size_of(inputs) |->
     model_scores(inputs["pf_features__0"][i], inputs["sv_features__1"][i])]

np_concatenate(outs) == [type |-> "ndarray", ndim |-> 2, rows |-> flatten(outs)]

py_list(outs) == [type |-> "list", ndim |-> 1, rows |-> outs]

\* np.concatenate(outs) if input_size > 0 else outs
triton_return(outs, input_size) ==
  IF input_size > 0 THEN np_concatenate(outs) ELSE py_list(outs)

\* tagger_outputs[:, c] under each name, or empty arrays
pnet_vars_of(tagger_outputs) ==
  [v \in Range(PnetVarNames) |->
     IF Len(tagger_outputs.rows) > 0
       THEN [i \in 1..Len(tagger_outputs.rows) |->
               tagger_outputs.rows[i][CHOOSE c \in 1..NumScores : PnetVarNames[c] = v]]
       ELSE <<>>]

\* the scores of the batches that were answered before the failure
partial_result(r) == Some(pnet_vars_of(np_concatenate(r.outs)))

\* what the except clause of runInferenceTriton returns
except_result(r) == None

NoTriton ==
  [raised |-> FALSE, k |-> 0, outs |-> <<>>, requests |-> <<>>,
   out |-> None, result |-> None]

InitTriton ==
  /\ genparts = <<>>
  /\ fatjets = <<>>
  /\ pc = "call"
  /\ ret = NoTriton
  /\ JET_DR = DEFAULT_JET_DR
  /\ \E n \in 0..MaxN, b \in 1..MaxBatch, p \in Protocols :
       \E pf \in [1..n -> FeatureValues], sv \in [1..n -> FeatureValues] :
          call = [fn |-> "runInferenceTriton", protocol |-> p, batch_size |-> b,
                  tagger_inputs |->
                    [key \in InputNames |->
                       IF key = "pf_features__0" THEN pf ELSE sv]]

\* the client is made, or the protocol is refused
Triton_connect ==
  /\ pc = "call"
  /\ call.fn = "runInferenceTriton"
  /\ IF call.protocol \in {"grpc", "http"}
       THEN pc' = "loop" /\ ret' = ret
       ELSE pc' = "raised" /\ ret' = [ret EXCEPT !.raised = TRUE]
  /\ UNCHANGED <<genparts, fatjets, call, JET_DR>>

Batches == range_step(input_size_of(call.tagger_inputs), call.batch_size)

Request == batch_of(call.tagger_inputs, Batches[ret.k + 1], call.batch_size)

\* one batch is sent and answered
Triton_do_inference ==
  /\ pc = "loop"
  /\ ret.k < Len(Batches)
  /\ ret' = [ret EXCEPT !.k = @ + 1,
                        !.requests = Append(@, Request),
                        !.outs = Append(@, as_numpy(Request))]
  /\ UNCHANGED <<genparts, fatjets, pc, call, JET_DR>>

\* one batch is sent and client.infer raises
Triton_infer_raises ==
  /\ pc = "loop"
  /\ ret.k < Len(Batches)
  /\ ret' = [ret EXCEPT !.requests = Append(@, Request), !.raised = TRUE]
  /\ pc' = "raised"
  /\ UNCHANGED <<genparts, fatjets, call, JET_DR>>

\* every batch was answered: __call__ returns
Triton_return ==
  /\ pc = "loop"
  /\ ret.k = Len(Batches)
  /\ ret' = [ret EXCEPT !.out =
               Some(triton_return(ret.outs, input_size_of(call.tagger_inputs)))]
  /\ pc' = "returned"
  /\ UNCHANGED <<genparts, fatjets, call, JET_DR>>

\* runInferenceTriton after the call: the scores by name
Run_pnet_vars ==
  /\ pc = "returned"
  /\ ret' = [ret EXCEPT !.result = Some(pnet_vars_of(ret.out[1]))]
  /\ pc' = "done"
  /\ UNCHANGED <<genparts, fatjets, call, JET_DR>>

\* runInferenceTriton when the call raised
Run_except ==
  /\ pc = "raised"
  /\ ret' = [ret EXCEPT !.result = except_result(ret)]
  /\ pc' = "done"
  /\ UNCHANGED <<genparts, fatjets, call, JET_DR>>

NextTriton ==
  \/ Triton_connect
  \/ Triton_do_inference
  \/ Triton_infer_raises
  \/ Triton_return
  \/ Run_pnet_vars
  \/ Run_except

SpecTriton == InitTriton /\ [][NextTriton]_vars

(* get_sum_sumgenweight and the event weight of make_hist (make_plots.py) *)

MaxFiles == 3
MaxWeight == 3

XsecMenu == {1, 2}

LumiMenu == {6, 60}

\* sum_sumgenweight before the loop over the files
SUM_START == 1

\* line 134: (xsec * luminosity[year]) / (sum_sumgenweight)
xsec_weight_of(xsec, luminosity, sum_sumgenweight) ==
  fdiv(I(xsec * luminosity), I(sum_sumgenweight))

NoSum == [i |-> 0, sum_sumgenweight |-> 0, out |-> None, xsec_weight |-> None]

\* the sumgenweight of each metadata file of the sample, for the year
InitSum ==
  /\ genparts = <<>>
  /\ fatjets = <<>>
  /\ pc = "call"
  /\ ret = NoSum
  /\ JET_DR = DEFAULT_JET_DR
  /\ \E n \in 0..MaxFiles, xsec \in XsecMenu, luminosity \in LumiMenu :
       \E files \in [1..n -> 1..MaxWeight] :
          call = [fn |-> "make_hist", pkl_files |-> files, xsec |-> xsec,
                  luminosity |-> luminosity]

\* make_hist lines 115-118, get_sum_sumgenweight lines 72-74: a sample with
\* no processed file is skipped, else the sum is started
Sum_glob ==
  /\ pc = "call"
  /\ call.fn = "make_hist"
  /\ IF Len(call.pkl_files) = 0
       THEN pc' = "skipped" /\ ret' = ret
       ELSE /\ pc' = "loop"
            /\ ret' = [ret EXCEPT !.sum_sumgenweight = SUM_START]
  /\ UNCHANGED <<genparts, fatjets, call, JET_DR>>

\* lines 75-79: one file is loaded and added
Sum_load ==
  /\ pc = "loop"
  /\ ret.i < Len(call.pkl_files)
  /\ ret' = [ret EXCEPT !.i = @ + 1,
                        !.sum_sumgenweight = @ + call.pkl_files[ret.i + 1]]
  /\ UNCHANGED <<genparts, fatjets, pc, call, JET_DR>>

\* line 80
Sum_return ==
  /\ pc = "loop"
  /\ ret.i = Len(call.pkl_files)
  /\ ret' = [ret EXCEPT !.out = Some(ret.sum_sumgenweight)]
  /\ pc' = "returned"
  /\ UNCHANGED <<genparts, fatjets, call, JET_DR>>

\* make_hist lines 131-135
Sum_xsec_weight ==
  /\ pc = "returned"
  /\ ret' = [ret EXCEPT !.xsec_weight =
               Some(xsec_weight_of(call.xsec, call.luminosity, ret.out[1]))]
  /\ pc' = "done"
  /\ UNCHANGED <<genparts, fatjets, call, JET_DR>>

NextSum ==
  \/ Sum_glob
  \/ Sum_load
  \/ Sum_return
  \/ Sum_xsec_weight

SpecSum == InitSum /\ [][NextSum]_vars

(* tagger_gen_matching on a batch of events *)

Labels ==
  {<<"H", "W", "W">>, <<"Q", "C", "D">>, <<"V", "J", "e", "t", "s">>,
   <<"T", "o", "p">>, <<"D", "Y">>, <<"Q", "C", "D", "_", "H", "T">>,
   <<"T", "o", "p", "V", "J", "e", "t", "s">>,
   <<"T", "o", "p", "Q", "C", "D">>}

GenLabelLists ==
  {<<>>,
   <<"fj_genjetmass", "fj_V_2q", "fj_QCDbb", "fj_Top_isMatched", "fj_H_VV_4q">>,
   <<"fj_nprongs", "fj_lepinprongs", "fj_V_isMatched", "fj_QCDbb", "fj_nprongs">>,
   <<"fj_H_tt_hadhad", "fj_H_tt_elehad", "fj_H_tt_muhad", "fj_H_tt_leplep",
     "fj_H_tt_isMatched", "fj_genjetmass">>}

DispTopMenu ==
  {Template(HIGGS_PDGID, TRUE, TRUE, Near, 125),
   Template(W_PDGID, TRUE, TRUE, Near, 80),
   Template(TOP_PDGID, TRUE, TRUE, Near, 173),
   Template(g_PDGID, TRUE, TRUE, Edge, 0)}

DispChildMenu ==
  {Template(-b_PDGID, TRUE, TRUE, Near, 0)}

JetMenu == {Jet(0, 0, 100), Jet(2, 1, 80)}

InitBatch ==
  /\ genparts = <<>>
  /\ fatjets = <<>>
  /\ pc = "build"
  /\ call = NoCall
  /\ ret = NoRet
  /\ JET_DR = DEFAULT_JET_DR

NewEvent(jet) ==
  /\ pc = "build"
  /\ Len(genparts) < MaxEvents
  /\ genparts' = Append(genparts, <<>>)
  /\ fatjets' = Append(fatjets, jet)
  /\ UNCHANGED <<pc, call, ret, JET_DR>>

Run_tagger_gen_matching(genlabels, label) ==
  /\ pc = "build"
  /\ call' = [fn |-> "tagger_gen_matching", genlabels |-> genlabels,
              label |-> label]
  /\ ret' = tagger_gen_matching(genparts, genparts, fatjets, genlabels, label)
  /\ pc' = "done"
  /\ UNCHANGED <<genparts, fatjets, JET_DR>>

NextDisp ==
  \/ \E jet \in JetMenu : NewEvent(jet)
  \/ \E t \in DispTopMenu : AddTop(t, MaxHiggs)
  \/ \E t \in DispChildMenu : AddChild(t)
  \/ \E genlabels \in GenLabelLists, label \in Labels :
        Run_tagger_gen_matching(genlabels, label)

SpecDisp == InitBatch /\ [][NextDisp]_vars

---------------------------------------------------------------------------
(* What the claims speak of, stated on the event and not on the code *)

Done(fn) == pc = "done" /\ call.fn = fn

\* the gen particles passing the Higgs selection
HiggsSel(ev) ==
  {i \in 1..Len(ev) : /\ Abs(ev[i].pdgId) = 25
                      /\ ev[i].fromHardProcess /\ ev[i].isLastCopy}

\* the daughters of the children of the selected Higgs particles
DecayDaughters(ev) ==
  {i \in 1..Len(ev) : /\ ev[i].parent # 0
                      /\ ev[ev[i].parent].parent \in HiggsSel(ev)}

NumWithin(ev, S, codes) == Cardinality({i \in S : Abs(ev[i].pdgId) \in codes})

\* the candidate nearest the jet, the first of them on a tie
Nearest(ev, jet, cands) ==
  CHOOSE b \in cands :
    \A c \in cands : \/ delta_r(jet, ev[b]) < delta_r(jet, ev[c])
                     \/ delta_r(jet, ev[b]) = delta_r(jet, ev[c]) /\ b <= c

PdgIdsOfChildren(ev, i) == {ev[j].pdgId : j \in {k \in 1..Len(ev) : ev[k].parent = i}}

\* the names of the variables the classifier selected by a label produces
ProducedBy(label) ==
  IF Contains(<<"H">>, label)
  THEN HVarNames \cup HVVVarNames \cup {"fj_genRes_mass"}
  ELSE IF Contains(<<"Q", "C", "D">>, label) THEN QCDVarNames
  ELSE IF Contains(<<"V", "J", "e", "t", "s">>, label) THEN VVarNames
  ELSE IF Contains(<<"T", "o", "p">>, label) THEN TopVarNames
  ELSE {}

NoClassifier(label) ==
  /\ ~Contains(<<"H">>, label)
  /\ ~Contains(<<"Q", "C", "D">>, label)
  /\ ~Contains(<<"V", "J", "e", "t", "s">>, label)
  /\ ~Contains(<<"T", "o", "p">>, label)

AllFalse(mask, n) == Len(mask) = n /\ \A e \in 1..n : mask[e] = FALSE

---------------------------------------------------------------------------
(* Claims *)

\* C1: for every label and every list of requested names, the mapping
\* tagger_gen_matching returns has exactly the requested names as keys, and
\* every requested name the selected classifier did not produce (other than
\* fj_genjetmass) maps to an all-zero array with one entry per event.
C1_ExactlyRequestedNames ==
  Done("tagger_gen_matching") =>
    /\ ~ret.raised
    /\ DOMAIN ret.genVars = Range(call.genlabels)
    /\ \A key \in Range(call.genlabels) :
         (key \notin ProducedBy(call.label) /\ key # "fj_genjetmass")
           => ret.genVars[key] = [e \in 1..Len(genparts) |-> 0]

\* C2: the classifier is selected by substring tests in the order H, QCD,
\* VJets, Top, and in each of the four cases the call completes and returns
\* that classifier's mask and that classifier's values for the requested
\* names it produces, plus fj_genRes_mass = 125 per event in the H case.
C2_SelectedClassifierCompletes ==
  Done("tagger_gen_matching") =>
    LET label == call.label
        isH == Contains(<<"H">>, label)
        expected ==
          IF isH THEN match_H(genparts, fatjets, "lepton", W_PDGID)
          ELSE IF Contains(<<"Q", "C", "D">>, label) THEN match_QCD(genparts, fatjets)
          ELSE IF Contains(<<"V", "J", "e", "t", "s">>, label)
          THEN match_V(genparts, fatjets)
          ELSE match_Top(genparts, fatjets)
    IN ~NoClassifier(label) =>
         /\ ~ret.raised
         /\ ret.mask = expected.mask
         /\ \A key \in Range(call.genlabels) \cap DOMAIN expected.genVars :
              ret.genVars[key] = expected.genVars[key]
         /\ (isH /\ "fj_genRes_mass" \in Range(call.genlabels))
              => ret.genVars["fj_genRes_mass"] = [e \in 1..Len(genparts) |-> 125]

\* C3, as stated: for a label containing none of H, QCD, VJets, Top the
\* call does not raise and returns an empty variable mapping and an
\* all-false mask with one entry per event.
C3_EmptyMapping ==
  (Done("tagger_gen_matching") /\ NoClassifier(call.label)) =>
    /\ ~ret.raised
    /\ DOMAIN ret.genVars = {}
    /\ AllFalse(ret.mask, Len(genparts))

\* C3, amended: for such a label the call does not raise; the mapping holds
\* exactly the requested names, each an all-zero array with one entry per
\* event except fj_genjetmass, which holds the gen-jet masses; the mask has
\* one entry per event, every entry false.
C3_ZeroFilledMapping ==
  (Done("tagger_gen_matching") /\ NoClassifier(call.label)) =>
    /\ ~ret.raised
    /\ DOMAIN ret.genVars = Range(call.genlabels)
    /\ \A key \in Range(call.genlabels) :
         ret.genVars[key] =
           IF key = "fj_genjetmass"
           THEN [e \in 1..Len(fatjets) |-> fatjets[e].matched_gen_mass]
           ELSE [e \in 1..Len(genparts) |-> 0]
    /\ AllFalse(ret.mask, Len(genparts))

C3_Witness ==
  /\ Done("tagger_gen_matching")
  /\ NoClassifier(call.label)
  /\ Len(genparts) = 2
  /\ Len(genparts[1]) > 0
  /\ "fj_V_2q" \in DOMAIN ret.genVars
  /\ ret.genVars["fj_V_2q"] = <<0, 0>>
  /\ ret.mask = <<FALSE, FALSE>>

\* C4: for every event with no gen particle passing the Higgs selection,
\* match_H does not raise, reports fj_genH_pt equal to FILL_NONE_VALUE for
\* that event and returns a false mask entry for it.
C4_NoHiggsGivesFillValue ==
  Done("match_H") =>
    \A e \in 1..Len(genparts) :
      HiggsSel(genparts[e]) = {} =>
        /\ ~ret.raised
        /\ ret.genVars["fj_genH_pt"][e] = <<FILL_NONE_VALUE>>
        /\ ret.mask[e] = FALSE

\* C5: in the WW branch, with nq, ne, nmu, ntau counted among the daughters
\* of the Higgs's children, fj_H_VV_4q = 1 iff nq = 4 and no lepton;
\* fj_H_VV_elenuqq (munuqq, taunuqq) = 1 iff there is exactly one lepton, it
\* is an electron (muon, tau) and nq = 2.  One Higgs with W -> {13, -14} and
\* W -> {1, -2}, the jet within 0.8 of the hadronic W, gives munuqq = 1,
\* 4q = 0 and fj_H_VV_isMatched true.
C5_Scenario(ev, jet) ==
  /\ Len(ev) = 7
  /\ \E h \in HiggsSel(ev) : \E wl, wq \in 1..Len(ev) :
       /\ HiggsSel(ev) = {h}
       /\ ev[wl].parent = h /\ ev[wq].parent = h
       /\ Abs(ev[wl].pdgId) = 24 /\ Abs(ev[wq].pdgId) = 24
       /\ PdgIdsOfChildren(ev, wl) = {13, -14}
       /\ PdgIdsOfChildren(ev, wq) = {1, -2}
       /\ delta_r(jet, ev[wq]) < 8

C5_WWDecayFlags ==
  (Done("match_H") /\ call.dau_pdgid = W_PDGID /\ ~ret.raised) =>
    \A e \in 1..Len(genparts) :
      LET ev == genparts[e]
          D == DecayDaughters(ev)
          nq == Cardinality({i \in D : Abs(ev[i].pdgId) <= 5})
          ne == NumWithin(ev, D, {11})
          nmu == NumWithin(ev, D, {13})
          ntau == NumWithin(ev, D, {15})
          g == ret.genVars
      IN /\ g["fj_H_VV_4q"][e] = 1 <=> (nq = 4 /\ ne + nmu + ntau = 0)
         /\ g["fj_H_VV_elenuqq"][e] = 1 <=>
              (ne + nmu + ntau = 1 /\ ne = 1 /\ nq = 2)
         /\ g["fj_H_VV_munuqq"][e] = 1 <=>
              (ne + nmu + ntau = 1 /\ nmu = 1 /\ nq = 2)
         /\ g["fj_H_VV_taunuqq"][e] = 1 <=>
              (ne + nmu + ntau = 1 /\ ntau = 1 /\ nq = 2)
         /\ \A k \in {"fj_H_VV_4q", "fj_H_VV_elenuqq", "fj_H_VV_munuqq",
                      "fj_H_VV_taunuqq"} : g[k][e] \in {0, 1}
         /\ C5_Scenario(ev, fatjets[e]) =>
              /\ g["fj_H_VV_munuqq"][e] = 1
              /\ g["fj_H_VV_4q"][e] = 0
              /\ g["fj_H_VV_isMatched"][e] = Some(TRUE)

C5_Witness ==
  /\ Done("match_H")
  /\ call.dau_pdgid = W_PDGID
  /\ ~ret.raised
  /\ C5_Scenario(genparts[1], fatjets[1])
  /\ ret.genVars["fj_H_VV_munuqq"][1] = 1

\* C6: the mask match_H returns in the WW branch is true for an event iff
\* the jet is within 0.8 of the closest Higgs and within 0.8 of a decay
\* daughter of that Higgs.
C6_MaskNeedsDaughter ==
  (Done("match_H") /\ call.dau_pdgid = W_PDGID /\ ~ret.raised) =>
    \A e \in 1..Len(genparts) :
      LET ev == genparts[e]
          jet == fatjets[e]
          h == Nearest(ev, jet, HiggsSel(ev))
      IN ret.mask[e] <=>
           /\ HiggsSel(ev) # {}
           /\ delta_r(jet, ev[h]) < 8
           /\ \E i \in 1..Len(ev) :
                /\ ev[i].parent # 0
                /\ ev[ev[i].parent].parent = h
                /\ delta_r(jet, ev[i]) < 8

\* C7: in the tau-tau branch, for every event with a selected Higgs and
\* every combination of decay products of its taus, exactly one of
\* fj_H_tt_hadhad, fj_H_tt_elehad, fj_H_tt_muhad, fj_H_tt_leplep is 1.
HttFlagNames ==
  {"fj_H_tt_hadhad", "fj_H_tt_elehad", "fj_H_tt_muhad", "fj_H_tt_leplep"}

VFlagNames == {"fj_V_2q", "fj_V_elenu", "fj_V_munu", "fj_V_taunu"}

C8_AtMostOneVFlag ==
  Done("match_V") =>
    /\ ~ret.raised
    /\ \A e \in 1..Len(genparts) :
         /\ \A k \in VFlagNames : ret.genVars[k][e] \in {0, 1}
         /\ Cardinality({k \in VFlagNames : ret.genVars[k][e] = 1}) <= 1

\* a boson with an electron and a muon among its daughters: no flag is set
C8_Witness ==
  /\ Done("match_V")
  /\ \E b \in 1..Len(genparts[1]) :
       /\ Abs(genparts[1][b].pdgId) = 24
       /\ PdgIdsOfChildren(genparts[1], b) = {11, -13}
  /\ \A k \in VFlagNames : ret.genVars[k][1] = 0

\* the W and Z bosons passing the selection of match_V
VSel(ev) ==
  {i \in 1..Len(ev) : /\ Abs(ev[i].pdgId) \in {23, 24}
                      /\ ev[i].fromHardProcess /\ ev[i].isLastCopy}

\* the hard-process last-copy daughters of the boson nearest the jet
SelectedVDaughters(ev, jet) ==
  {i \in 1..Len(ev) : /\ VSel(ev) # {}
                      /\ ev[i].parent = Nearest(ev, jet, VSel(ev))
                      /\ ev[i].fromHardProcess /\ ev[i].isLastCopy}

\* C9: the mask match_V returns is true for an event iff the selected boson
\* (the flagged W/Z nearest the jet) is within the association radius and
\* at least one of its hard-process last-copy daughters is within it;
\* fj_V_isMatched equals the returned mask for every event.
C9_VMaskBosonAndDaughter ==
  Done("match_V") =>
    /\ ~ret.raised
    /\ \A e \in 1..Len(genparts) :
         LET ev == genparts[e]
             jet == fatjets[e]
         IN /\ ret.mask[e] <=>
                 /\ VSel(ev) # {}
                 /\ delta_r(jet, ev[Nearest(ev, jet, VSel(ev))]) < JET_DR
                 /\ \E i \in SelectedVDaughters(ev, jet) :
                      delta_r(jet, ev[i]) < JET_DR
            /\ ret.genVars["fj_V_isMatched"][e] = ret.mask[e]

\* two selected bosons, the nearer one within the radius with a daughter
\* inside it
C9_Witness ==
  /\ Done("match_V")
  /\ Cardinality(VSel(genparts[1])) = 2
  /\ \E i \in SelectedVDaughters(genparts[1], fatjets[1]) :
       delta_r(fatjets[1], genparts[1][i]) < JET_DR
  /\ ret.mask[1] = TRUE
  /\ ret.genVars["fj_V_isMatched"][1] = TRUE

\* C10: the decay code of match_V is the sum of 1 if the selected boson has
\* exactly two quark daughters of any flavour (|pdgId| <= 5), 3 if it has an
\* electron daughter, 5 if a muon daughter, 7 if a tau daughter, and
\* fj_V_2q = 1 iff the code is 1: a boson decaying to two quarks, b quarks
\* included, and no charged lepton has fj_V_2q = 1.
C10_TwoQuarksAnyFlavour ==
  Done("match_V") =>
    \A e \in 1..Len(genparts) :
      LET ev == genparts[e]
          D == SelectedVDaughters(ev, fatjets[e])
          code == Times(Cardinality({i \in D : Abs(ev[i].pdgId) <= 5}) = 2, 1)
                  + Times(NumWithin(ev, D, {11}) >= 1, 3)
                  + Times(NumWithin(ev, D, {13}) >= 1, 5)
                  + Times(NumWithin(ev, D, {15}) >= 1, 7)
      IN ret.genVars["fj_V_2q"][e] = 1 <=> code = 1

---------------------------------------------------------------------------
(* match_Top *)

\* the gen particles passing the top selection
TopSel(ev) ==
  {i \in 1..Len(ev) : /\ Abs(ev[i].pdgId) = 6
                      /\ ev[i].fromHardProcess /\ ev[i].isLastCopy}

\* the hard-process last-copy children of the selected tops
TopDaughterSet(ev) ==
  {i \in 1..Len(ev) : /\ ev[i].parent \in TopSel(ev)
                      /\ ev[i].fromHardProcess /\ ev[i].isLastCopy}

\* the hard-process last-copy daughters of the W among them
WDaughterSet(ev) ==
  {i \in 1..Len(ev) : /\ ev[i].parent \in TopDaughterSet(ev)
                      /\ Abs(ev[ev[i].parent].pdgId) = 24
                      /\ ev[i].fromHardProcess /\ ev[i].isLastCopy}

WithinR(ev, jet, S) == {i \in S : delta_r(jet, ev[i]) < JET_DR}

\* C11: fj_Top_isMatched and the returned mask are true iff a selected top
\* is within the radius of the jet and a hard-process last-copy top
\* daughter is within the radius; fj_Top_numMatched is the number of
\* selected tops within the radius, at least 1 when fj_Top_isMatched.
C11_TopMaskTopAndDaughter ==
  Done("match_Top") =>
    LET ev == genparts[1]
        jet == fatjets[1]
        nTops == Cardinality(WithinR(ev, jet, TopSel(ev)))
        nDaus == Cardinality(WithinR(ev, jet, TopDaughterSet(ev)))
    IN /\ ret.mask[1] = (nTops >= 1 /\ nDaus >= 1)
       /\ ret.genVars["fj_Top_isMatched"][1] = ret.mask[1]
       /\ ret.genVars["fj_Top_numMatched"][1] = nTops
       /\ (ret.genVars["fj_Top_isMatched"][1]
             => ret.genVars["fj_Top_numMatched"][1] >= 1)

\* two selected tops, one of them within the radius with a daughter within
\* the radius: the mask is true and one top is counted
C11_Witness ==
  /\ Done("match_Top")
  /\ Cardinality(TopSel(genparts[1])) = 2
  /\ ret.mask[1] = TRUE
  /\ ret.genVars["fj_Top_numMatched"][1] = 1

\* every top has at most one W daughter, every W at most one tau daughter
\* and every tau at most one electron or muon among its children
OneTauPerW(ev) ==
  /\ \A top \in TopSel(ev) :
        Cardinality({i \in TopDaughterSet(ev) :
                       ev[i].parent = top /\ Abs(ev[i].pdgId) = 24}) <= 1
  /\ \A w \in TopDaughterSet(ev) :
        Cardinality({i \in WDaughterSet(ev) :
                       ev[i].parent = w /\ Abs(ev[i].pdgId) = 15}) <= 1
  /\ \A tau \in WDaughterSet(ev) :
        Cardinality({i \in 1..Len(ev) :
                       ev[i].parent = tau /\ Abs(ev[i].pdgId) \in {11, 13}}) <= 1

\* C12: fj_Top_taudecay is 0, 1 (hadronic), 3 (electron) or 5 (muon), and is
\* 0 only when no W daughter is a tau, also for an event with two tops
\* whose W bosons both decay to a tau.
C12_TauDecayCode ==
  Done("match_Top") /\ OneTauPerW(genparts[1]) =>
    LET ev == genparts[1]
        code == ret.genVars["fj_Top_taudecay"][1]
    IN /\ code \in {0, 1, 3, 5}
       /\ (code = 0 => \A i \in WDaughterSet(ev) : Abs(ev[i].pdgId) # 15)

---------------------------------------------------------------------------
(* match_QCD *)

QCDFlagNames ==
  {"fj_QCDb", "fj_QCDbb", "fj_QCDc", "fj_QCDcc", "fj_QCDothers"}

\* C13: for every pair of counts (nBHadrons, nCHadrons) at most one of the
\* five QCD labels is 1; with nBHadrons >= 2 fj_QCDbb is 1 and the other
\* four are 0, whatever nCHadrons is.
C13_QCDLabelsExclusive ==
  Done("match_QCD") =>
    LET jet == fatjets[1]
        ones == {k \in QCDFlagNames : ret.genVars[k][1] = 1}
    IN /\ \A k \in QCDFlagNames : ret.genVars[k][1] \in {0, 1}
       /\ Cardinality(ones) <= 1
       /\ (jet.nBHadrons >= 2 => ones = {"fj_QCDbb"})

\* two b hadrons and a c hadron in the jet: only fj_QCDbb is set
C13_Witness ==
  /\ Done("match_QCD")
  /\ fatjets[1].nBHadrons = 2
  /\ fatjets[1].nCHadrons = 1
  /\ ret.genVars["fj_QCDbb"][1] = 1
  /\ ret.genVars["fj_QCDc"][1] = 0

---------------------------------------------------------------------------
(* get_neutrino_z: the quadratic A z^2 + B z + C = 0 of the call, in       *)
(* integers                                                                *)

Nu_a ==
  call.h_mass.n * call.h_mass.n - call.vis.mass.n * call.vis.mass.n
  + 2 * call.vis.x.n * call.inv.x.n + 2 * call.vis.y.n * call.inv.y.n

Nu_A == 4 * (call.vis.t.n * call.vis.t.n - call.vis.z.n * call.vis.z.n)

Nu_B == -4 * Nu_a * call.vis.z.n

Nu_C ==
  4 * call.vis.t.n * call.vis.t.n
    * (call.inv.x.n * call.inv.x.n + call.inv.y.n * call.inv.y.n)
  - Nu_a * Nu_a

Nu_delta == Nu_B * Nu_B - 4 * Nu_A * Nu_C

\* C14: the returned z is -B/(2A) when the discriminant is negative and the
\* larger of the two real roots when it is >= 0; the double root -B/(2A)
\* when it is exactly 0.
C14_RootPolicy ==
  Done("get_neutrino_z") /\ Nu_A > 0 =>
    ret.z = IF Nu_delta < 0 THEN Fin(-Nu_B, 2 * Nu_A)
            ELSE Fin(-Nu_B + isqrt(Nu_delta), 2 * Nu_A)

\* C15: z and t of the returned neutrino are never NaN, and z is 0 when the
\* leading coefficient A is zero.
C15_NeverNaN ==
  Done("get_neutrino_z") =>
    /\ ret.z.k = "fin"
    /\ ret.t.k \in {"fin", "surd"}
    /\ (Nu_A = 0 => ret.z = I(0))

\* A = 0 with B # 0: both candidate roots divide by zero
C15_Witness ==
  /\ Done("get_neutrino_z")
  /\ Nu_A = 0
  /\ Nu_B # 0
  /\ ret.z = I(0)

\* the squared invariant mass of the visible system plus the neutrino
MassSquared(vis, nu) ==
  fsub(fsub(fsub(fmul(fadd(vis.t, nu.t), fadd(vis.t, nu.t)),
                 fmul(fadd(vis.x, nu.x), fadd(vis.x, nu.x))),
            fmul(fadd(vis.y, nu.y), fadd(vis.y, nu.y))),
       fmul(fadd(vis.z, nu.z), fadd(vis.z, nu.z)))

\* C16: when the discriminant is non-negative the invariant mass of the
\* visible system plus the returned neutrino is the target mass.  Stated
\* for a >= 0, where the roots of the quadratic solve the mass constraint.
C16_RoundTrip ==
  Done("get_neutrino_z") /\ Nu_A > 0 /\ Nu_delta >= 0 /\ Nu_a >= 0 =>
    /\ ret.t.k = "fin"
    /\ MassSquared(call.vis, ret) = fmul(call.h_mass, call.h_mass)

---------------------------------------------------------------------------
(* The association radius *)

PartonSel(ev) ==
  {i \in 1..Len(ev) : Abs(ev[i].pdgId) \in {21, 1, 2, 3, 4, 5}}

\* C17: every jet-to-particle association of the four classifiers is the
\* strict test deltaR < JET_DR, whatever value JET_DR holds: the Higgs cut
\* of match_H, the boson and daughter cuts of match_V, the top and daughter
\* cuts of match_Top and the parton cut of match_QCD.
C17_OneRadius ==
  LET ev == genparts[1]
      jet == fatjets[1]
  IN /\ Done("match_H") =>
          (ret.mask[1] <=>
             /\ HiggsSel(ev) # {}
             /\ delta_r(jet, ev[Nearest(ev, jet, HiggsSel(ev))]) < JET_DR)
     /\ Done("match_V") =>
          (ret.mask[1] <=>
             /\ VSel(ev) # {}
             /\ delta_r(jet, ev[Nearest(ev, jet, VSel(ev))]) < JET_DR
             /\ WithinR(ev, jet, SelectedVDaughters(ev, jet)) # {})
     /\ Done("match_Top") =>
          (ret.mask[1] <=>
             /\ WithinR(ev, jet, TopSel(ev)) # {}
             /\ WithinR(ev, jet, TopDaughterSet(ev)) # {})
     /\ Done("match_QCD") =>
          (ret.mask[1] <=> WithinR(ev, jet, PartonSel(ev)) # {})

---------------------------------------------------------------------------
(* get_pid_mask *)

\* C18: with byall=False a particle is marked iff the absolute value of its
\* pdgId is one of the given codes, so a particle and its antiparticle are
\* marked alike; with byall=True the result is the AND of the marks over
\* the group; the particles are left as they were.
C18_PidMask ==
  Done("get_pid_mask") =>
    LET ev == genparts[1]
        marks == [k \in 1..Len(ev) |->
                    Abs(ev[k].pdgId) \in {call.pdgids[m] : m \in 1..Len(call.pdgids)}]
    IN /\ call.byall => ret.mask = (\A k \in 1..Len(ev) : marks[k])
       /\ ~call.byall =>
            /\ ret.mask = marks
            /\ \A i, j \in 1..Len(ev) :
                 ev[i].pdgId = -ev[j].pdgId => ret.mask[i] = ret.mask[j]
       /\ genparts = call.genparts

\* a list of two codes on a group holding an antiparticle of one of them and
\* a particle of neither
C18_Witness ==
  /\ Done("get_pid_mask")
  /\ ~call.byall
  /\ Len(call.pdgids) = 2
  /\ \E i, j \in 1..Len(genparts[1]) :
       /\ genparts[1][i].pdgId = -24 /\ ret.mask[i]
       /\ genparts[1][j].pdgId = 5 /\ ~ret.mask[j]

---------------------------------------------------------------------------
(* V and V* of the WW branch *)

\* the W children of the selected Higgs nearest the jet
WChildrenSet(ev, jet) ==
  {i \in 1..Len(ev) : /\ HiggsSel(ev) # {}
                      /\ ev[i].parent = Nearest(ev, jet, HiggsSel(ev))
                      /\ Abs(ev[i].pdgId) = 24}

Heaviest(ev, S) == {i \in S : \A j \in S : ev[j].mass <= ev[i].mass}

Lightest(ev, S) == {i \in S : \A j \in S : ev[i].mass <= ev[j].mass}

\* C19: V is a W child of maximum mass and V* one of minimum mass, whatever
\* the order of the children in the particle list, so mass(V*) <= mass(V).
\* V and V* are read from the distances fj_genV_dR and fj_genVstar.
C19_VByMass ==
  (Done("match_H") /\ call.dau_pdgid = W_PDGID /\ ~ret.raised) =>
    LET ev == genparts[1]
        jet == fatjets[1]
        Ws == WChildrenSet(ev, jet)
    IN IF Ws = {}
       THEN /\ ret.genVars["fj_genV_dR"][1] = None
            /\ ret.genVars["fj_genVstar"][1] = None
       ELSE /\ \E v \in Heaviest(ev, Ws), v_star \in Lightest(ev, Ws) :
                 /\ ret.genVars["fj_genV_dR"][1] = Some(delta_r(jet, ev[v]))
                 /\ ret.genVars["fj_genVstar"][1] = Some(delta_r(jet, ev[v_star]))
                 /\ ret.genVars["genV_genVstar_dR"][1]
                      = Some(delta_r(ev[v], ev[v_star]))
                 /\ ev[v_star].mass <= ev[v].mass

\* the lighter W is the first child of the Higgs and the heavier the second:
\* V is the second child
C19_Witness ==
  /\ Done("match_H") /\ call.dau_pdgid = W_PDGID /\ ~ret.raised
  /\ \E i, j \in WChildrenSet(genparts[1], fatjets[1]) :
       /\ i < j
       /\ genparts[1][i].mass < genparts[1][j].mass
       /\ ret.genVars["fj_genV_dR"][1]
            = Some(delta_r(fatjets[1], genparts[1][j]))
       /\ ret.genVars["fj_genVstar"][1]
            = Some(delta_r(fatjets[1], genparts[1][i]))
       /\ delta_r(fatjets[1], genparts[1][i]) # delta_r(fatjets[1], genparts[1][j])

---------------------------------------------------------------------------
(* fj_genH_pt *)

\* C20: fj_genH_pt is, for each event with a Higgs candidate, the pt of the
\* one candidate nearest the jet (held as the list of that one number), also
\* when the event holds more than one candidate.
C20_ClosestHiggsPt ==
  (Done("match_H") /\ ~ret.raised /\ HiggsSel(genparts[1]) # {}) =>
    LET ev == genparts[1]
        h == Nearest(ev, fatjets[1], HiggsSel(ev))
    IN ret.genVars["fj_genH_pt"][1] = Some(ev[h].pt)

(* wrapped_triton: all or nothing, and the batches *)

TritonN == Len(call.tagger_inputs["pf_features__0"])

EventScores(i) ==
  model_scores(call.tagger_inputs["pf_features__0"][i],
               call.tagger_inputs["sv_features__1"][i])

\* one score vector per event, in event order
ScoresInEventOrder(rows) ==
  /\ Len(rows) = TritonN
  /\ \A i \in 1..TritonN : rows[i] = EventScores(i)

\* a failure gives nothing: no scores are returned, the batch that raised is
\* the last one sent, and runInferenceTriton returns None
FailsWhole ==
  ret.raised =>
    /\ ret.out = None
    /\ Len(ret.requests) <= Len(ret.outs) + 1
    /\ pc \in {"raised", "done"}
    /\ pc = "done" => ret.result = None

\* C21 as stated: wrapped_triton either returns a 2-D score array with exactly
\* N rows in event order, for every N >= 0 and every batch size >= 1, or fails
\* for the whole call (no scores of earlier batches, no later batch sent,
\* runInferenceTriton returns None)
C21_TwoDimArrayOrFailure ==
  /\ FailsWhole
  /\ pc = "returned" =>
       /\ ret.out # None
       /\ ret.out[1].type = "ndarray"
       /\ ret.out[1].ndim = 2
       /\ ScoresInEventOrder(ret.out[1].rows)

\* C21 amended: for N >= 1 wrapped_triton returns a 2-D score array with
\* exactly N rows in event order; for N = 0 it sends no request and returns
\* the empty list, which runInferenceTriton turns into empty columns; a call
\* in which any batch raises fails whole (no scores of earlier batches, no
\* later batch sent, runInferenceTriton returns None)
C21_ArrayListOrFailure ==
  /\ FailsWhole
  /\ pc = "returned" =>
       /\ ret.out # None
       /\ ScoresInEventOrder(ret.out[1].rows)
       /\ IF TritonN > 0
            THEN ret.out[1].type = "ndarray" /\ ret.out[1].ndim = 2
            ELSE ret.out[1] = py_list(<<>>) /\ ret.requests = <<>>
  /\ (pc = "done" /\ ~ret.raised) =>
       /\ ret.result # None
       /\ \A v \in Range(PnetVarNames) : Len(ret.result[1][v]) = TritonN

\* a batch was answered, the next one raised, and the call is over
C21_Witness ==
  /\ pc = "done"
  /\ call.fn = "runInferenceTriton"
  /\ ret.raised
  /\ Len(ret.outs) >= 1
  /\ Len(ret.requests) = Len(ret.outs) + 1
  /\ Len(ret.requests) < Len(Batches)

\* the events of batch k, by index: [(k-1)*b, min(k*b, N))
BatchEvents(k) ==
  {i \in 1..TritonN : (k - 1) * call.batch_size < i /\ i <= k * call.batch_size}

\* request r carries, under every name, exactly the events of batch k in order
CarriesBatch(r, k) ==
  \A key \in InputNames :
    /\ Len(r[key]) = Cardinality(BatchEvents(k))
    /\ Len(r[key]) <= call.batch_size
    /\ \A j \in 1..Len(r[key]) :
         r[key][j] = call.tagger_inputs[key][(k - 1) * call.batch_size + j]

\* C30: the k-th request carries the events [k*b, min((k+1)*b, N)) of every
\* named input, at most b of them, requests go out in ascending order, a
\* call that returns has sent ceil(N/b) requests, so every event exactly
\* once, and its output is the answers concatenated in that order
C30_ConsecutiveBatches ==
  /\ \A k \in 1..Len(ret.requests) : CarriesBatch(ret.requests[k], k)
  /\ pc = "returned" =>
       /\ Len(ret.requests) * call.batch_size >= TritonN
       /\ (Len(ret.requests) - 1) * call.batch_size < TritonN \/ TritonN = 0
       /\ \A i \in 1..TritonN :
            Cardinality({k \in 1..Len(ret.requests) : i \in BatchEvents(k)}) = 1
       /\ ScoresInEventOrder(ret.out[1].rows)

\* a call that returned after two requests, the second one short, on events
\* that differ from each other
C30_Witness ==
  /\ pc = "returned"
  /\ call.fn = "runInferenceTriton"
  /\ TritonN = 3
  /\ call.batch_size = 2
  /\ Len(ret.requests) = 2
  /\ \A i, j \in 1..TritonN : i # j => EventScores(i) # EventScores(j)

(* tagger_gen_matching: the conversion of the requested variables *)

\* C22: when the conversion of a requested variable fails, the call does not
\* raise and the variable stays as it was under its key, and every other
\* requested variable, before and after it, is converted
C22_FailureSwallowedPerVariable ==
  (Done("tagger_gen_matching") /\ ~ret.raised) =>
    /\ DOMAIN ret.repr = Range(call.genlabels)
    /\ DOMAIN ret.genVars = Range(call.genlabels)
    /\ \A key \in Range(call.genlabels) :
         IF to_numpy_raises(ret.prior[key])
           THEN ret.repr[key] = ret.prior[key]
           ELSE ret.repr[key] = "numpy"

\* a variable that cannot be converted stands between two that are
C22_Witness ==
  /\ Done("tagger_gen_matching")
  /\ ~ret.raised
  /\ Len(genparts) > 0
  /\ \E i, j, k \in 1..Len(call.genlabels) :
       /\ i < j /\ j < k
       /\ ret.prior[call.genlabels[i]] = "awkward_flat"
       /\ to_numpy_raises(ret.prior[call.genlabels[j]])
       /\ ret.prior[call.genlabels[k]] = "awkward_flat"
       /\ ret.repr[call.genlabels[i]] = "numpy"
       /\ ret.repr[call.genlabels[k]] = "numpy"

(* tagger_gen_matching: the tau-tau variables *)

\* C25: for every label, the tau-tau variables that are requested come from
\* no classifier: the call returns them zero-filled, one entry per event
C25_TauTauZeroFilled ==
  (Done("tagger_gen_matching") /\ Range(call.genlabels) \cap HTTVarNames # {}) =>
    /\ ~ret.raised
    /\ \A key \in Range(call.genlabels) \cap HTTVarNames :
         /\ key \in DOMAIN ret.genVars
         /\ ret.genVars[key] = np_zeros(Len(genparts))
         /\ ret.prior[key] = "numpy"

(* match_V: the matched leptons *)

\* C23: fj_lepinprongs of match_V is 0 or 1 for every event, and never more
\* than fj_nprongs
C23_AtMostOneLepton ==
  Done("match_V") =>
    /\ ~ret.raised
    /\ \A e \in 1..Len(genparts) :
         /\ ret.genVars["fj_lepinprongs"][e] \in {0, 1}
         /\ ret.genVars["fj_lepinprongs"][e] <= ret.genVars["fj_nprongs"][e]

(* get_sum_sumgenweight *)

RECURSIVE Total(_)
Total(files) == IF Len(files) = 0 THEN 0 ELSE Head(files) + Total(Tail(files))

\* C24: get_sum_sumgenweight returns the sum of the sumgenweight of the
\* files of the sample (s for a single file of sumgenweight s), and the
\* event weight is xsec * luminosity over that sum
C24_SumOverFiles ==
  /\ pc \in {"returned", "done"} =>
       /\ ret.out = Some(Total(call.pkl_files))
       /\ Len(call.pkl_files) = 1 => ret.out = Some(call.pkl_files[1])
  /\ pc = "done" =>
       ret.xsec_weight =
         Some(fdiv(I(call.xsec * call.luminosity), I(Total(call.pkl_files))))

(* match_H, tau-tau branch: the hadronic flag *)

\* the last-copy decay products of the taus of the Higgs nearest the jet
TauProducts(ev, jet) ==
  {i \in 1..Len(ev) :
     /\ ev[i].parent # 0
     /\ ev[i].isLastCopy
     /\ Abs(ev[ev[i].parent].pdgId) = 15
     /\ ev[ev[i].parent].parent = Nearest(ev, jet, HiggsSel(ev))}

\* C26: in the tau-tau branch an event with an electron or a muon among the
\* tau decay products is labelled elehad, muhad or leplep, never hadhad
C26_HadHadHasNoLepton ==
  (Done("match_H") /\ call.dau_pdgid = TAU_PDGID) =>
    \A e \in 1..Len(genparts) :
      (/\ HiggsSel(genparts[e]) # {}
       /\ \E i \in TauProducts(genparts[e], fatjets[e]) :
            Abs(genparts[e][i].pdgId) \in {11, 13}) =>
        /\ ret.genVars["fj_H_tt_hadhad"][e] # Some(1)
        /\ \E k \in HttFlagNames \ {"fj_H_tt_hadhad"} :
             ret.genVars[k][e] = Some(1)

(* match_H, WW branch: a second Higgs candidate *)

HVVDecayNames ==
  {"fj_H_VV_4q", "fj_H_VV_elenuqq", "fj_H_VV_munuqq", "fj_H_VV_taunuqq",
   "fj_nquarks", "fj_lepinprongs", "fj_ncquarks"}

\* the event holds two selected Higgs, the second one farther from the jet
SecondHiggsFarther(ev, jet) ==
  /\ Len(TopLevel(ev)) = 2
  /\ TopLevel(ev)[1] \in HiggsSel(ev)
  /\ TopLevel(ev)[2] \in HiggsSel(ev)
  /\ delta_r(jet, ev[TopLevel(ev)[1]]) < delta_r(jet, ev[TopLevel(ev)[2]])

\* the event before the second candidate and its decay products were added
WithoutSecond(ev) == SubSeq(ev, 1, TopLevel(ev)[2] - 1)

\* C27: in the WW branch the decay flags and the matched-daughter counts of
\* an event with a second, farther Higgs candidate are those of the event
\* without that candidate and its decay products
C27_OnlySelectedHiggs ==
  (/\ Done("match_H")
   /\ call.dau_pdgid = W_PDGID
   /\ SecondHiggsFarther(genparts[1], fatjets[1])) =>
    /\ ~ret.raised
    /\ \A k \in HVVDecayNames :
         ret.genVars[k] =
           match_H(<<WithoutSecond(genparts[1])>>, fatjets, "lepton",
                   W_PDGID).genVars[k]

(* match_H, WW branch: the charm count *)

\* C28: in the WW branch fj_ncquarks is the number of daughters with
\* |pdgId| = 4 within JET_DR of the jet, and it is at most fj_nquarks
C28_CharmCount ==
  (Done("match_H") /\ call.dau_pdgid = W_PDGID /\ ~ret.raised) =>
    \A e \in 1..Len(genparts) :
      /\ ret.genVars["fj_ncquarks"][e] =
           Cardinality({i \in WithinR(genparts[e], fatjets[e],
                                      DecayDaughters(genparts[e])) :
                          Abs(genparts[e][i].pdgId) = 4})
      /\ ret.genVars["fj_ncquarks"][e] <= ret.genVars["fj_nquarks"][e]

(* match_Top: the species counts *)

\* the hard-process last-copy W daughters within the radius, by code
MatchedWDaughters(ev, jet, codes) ==
  {i \in WithinR(ev, jet, WDaughterSet(ev)) : Abs(ev[i].pdgId) \in codes}

\* C29: in match_Top fj_Top_nleptons = fj_Top_nele + fj_Top_nmu +
\* fj_Top_ntau, the three counts are those of the matched W daughters with
\* |pdgId| 11, 13 and 15, and fj_Top_ncquarks <= fj_Top_nquarksnob
C29_TopSpeciesCounts ==
  Done("match_Top") =>
    /\ ~ret.raised
    /\ \A e \in 1..Len(genparts) :
         LET ev == genparts[e]
             jet == fatjets[e]
             g(k) == ret.genVars[k][e]
         IN /\ g("fj_Top_nleptons")
                 = g("fj_Top_nele") + g("fj_Top_nmu") + g("fj_Top_ntau")
            /\ g("fj_Top_nele") = Cardinality(MatchedWDaughters(ev, jet, {11}))
            /\ g("fj_Top_nmu") = Cardinality(MatchedWDaughters(ev, jet, {13}))
            /\ g("fj_Top_ntau") = Cardinality(MatchedWDaughters(ev, jet, {15}))
            /\ g("fj_Top_ncquarks") <= g("fj_Top_nquarksnob")

\* a top whose W daughters hold an electron and a muon within the radius,
\* and another W with a charm quark
C29_Witness ==
  /\ Done("match_Top")
  /\ ret.genVars["fj_Top_nele"][1] = 1
  /\ ret.genVars["fj_Top_nmu"][1] = 1
  /\ ret.genVars["fj_Top_nleptons"][1] = 2
  /\ ret.genVars["fj_Top_ncquarks"][1] = 1
  /\ Cardinality(MatchedWDaughters(genparts[1], fatjets[1], {11, 13})) = 2
====
